---- MODULE Spec2Model ----
(***************************************************************************)
(* State-machine model of utilities/checkpoint/checkpoint_impl.cc:         *)
(* CheckpointImpl::CreateCheckpoint (with CreateCustomCheckpoint and       *)
(* CleanStagingDirectory) and CheckpointImpl::ExportColumnFamily (with     *)
(* ExportFilesInMetaData), run against a storage engine whose writers,     *)
(* flush/compaction and obsolete-file deletion proceed concurrently, and   *)
(* against a process that lists the target directory.                      *)
(*                                                                         *)
(* One behaviour is one call.  Every engine or filesystem call of the code *)
(* is one step, so the engine and the lister interleave between any two of *)
(* them; the outcome of each call is drawn from the statuses it can return.*)
(* SpecConcurrent runs two CreateCheckpoint calls for one target at once.  *)
(***************************************************************************)
EXTENDS Integers, Sequences, FiniteSets, TLC

(***************************************************************************)
(* Bounds of the model.                                                    *)
(***************************************************************************)
MaxSlashes == 1      \* trailing slashes tried on a path argument
MaxDataFiles == 2    \* table/blob files the engine can hold
MaxWals == 2         \* WAL files the engine lists
MaxWrites == 1       \* writes the engine accepts while the call runs
MaxCompactions == 1  \* flushes/compactions while the call runs
MaxThreshold == 2    \* largest finite log_size_for_flush tried
MaxLevels == 2       \* levels of the exported column family
MaxWalSize == 2      \* largest WAL file size tried for the flush decision

(***************************************************************************)
(* Status codes (rocksdb::Status) and file types (FileType).               *)
(***************************************************************************)
OK == "OK"
NotFound == "NotFound"
NotSupported == "NotSupported"
IOError == "IOError"
InvalidArgument == "InvalidArgument"
Corruption == "Corruption"

kTableFile == "kTableFile"
kBlobFile == "kBlobFile"
kDescriptorFile == "kDescriptorFile"
kCurrentFile == "kCurrentFile"
kOptionsFile == "kOptionsFile"
kWalFile == "kWalFile"
kTempFile == "kTempFile"

kAliveLogFile == "kAliveLogFile"
kArchivedLogFile == "kArchivedLogFile"

\* port::kMaxUint64, scaled to the model's integers: larger than any sum of
\* WAL sizes and any log number the bounds allow.
kMaxUint64 == 255

(***************************************************************************)
(* Paths are sequences of tokens; concatenation is \o.  A file name is a   *)
(* pair <<kind, number>> standing for "/<number>.<kind>" (or "/CURRENT",   *)
(* "/MANIFEST-<number>", "/OPTIONS-<number>").                             *)
(***************************************************************************)
Slash == "/"
TmpSuffix == ".tmp"

\* db_->GetName(): the source database directory
DbName == <<"db">>
\* the directory name the caller asks for, without trailing slashes
TargetName == <<"snap">>

RECURSIVE Slashes(_)
Slashes(n) == IF n = 0 THEN <<>> ELSE <<Slash>> \o Slashes(n - 1)

\* std::string::find_last_not_of('/'): 1-based index of the last token that
\* is not a slash, 0 for npos
RECURSIVE FindLastNotOfSlash(_)
FindLastNotOfSlash(p) ==
  IF p = <<>> THEN 0
  ELSE IF p[Len(p)] # Slash THEN Len(p)
  ELSE FindLastNotOfSlash(SubSeq(p, 1, Len(p) - 1))

\* p.substr(0, p.find_last_not_of('/') + 1)
StripTrailingSlashes(p) == SubSeq(p, 1, FindLastNotOfSlash(p))

\* p.rfind(prefix, 0) == 0
StartsWith(p, prefix) ==
  /\ Len(p) >= Len(prefix)
  /\ SubSeq(p, 1, Len(prefix)) = prefix

Min(a, b) == IF a < b THEN a ELSE b

RECURSIVE SeqOfSet(_)
SeqOfSet(S) ==
  IF S = {} THEN <<>>
  ELSE LET m == CHOOSE x \in S : \A y \in S : x <= y
       IN <<m>> \o SeqOfSet(S \ {m})

(***************************************************************************)
(* File names.                                                             *)
(***************************************************************************)
CurrentFileName == <<"CURRENT", 0>>
ManifestFileName == <<"MANIFEST", 1>>
OptionsFileName == <<"OPTIONS", 2>>

TableFileName(n) == <<"sst", n>>
BlobFileName(n) == <<"blob", n>>
LogFileName(n) == <<"log", n>>

\* ParseFileName(fname, &number, &type)
ParseFileName(fname) ==
  LET kind == fname[1]
  IN [ok |-> kind \in {"sst", "blob", "MANIFEST", "CURRENT", "OPTIONS", "log"},
      number |-> fname[2],
      type |-> CASE kind = "sst" -> kTableFile
                 [] kind = "blob" -> kBlobFile
                 [] kind = "MANIFEST" -> kDescriptorFile
                 [] kind = "CURRENT" -> kCurrentFile
                 [] kind = "OPTIONS" -> kOptionsFile
                 [] kind = "log" -> kWalFile
                 [] OTHER -> kTempFile]

(***************************************************************************)
(* State.                                                                  *)
(***************************************************************************)
VARIABLES
  \* arguments of the call and the database options it reads
  op, checkpoint_dir, export_dir, log_size_for_flush, db_log_dir, wal_dir,
  allow_2pc,
  \* the storage engine (db_)
  read_only, latest_seq, disable_count, blob_num, file_status, manifest_size,
  wal_files, min_log_number_to_keep, compactions,
  \* the filesystem (db_->GetEnv(), db_->GetFileSystem())
  fs,
  \* control state of the call and its Status s
  pc, s,
  \* locals of CreateCheckpoint
  parsed_checkpoint_dir, full_private_path, value_log_dir, value_wal_dir,
  new_wal_dir, disabled_file_deletions, sequence_number_ptr,
  \* locals of CreateCustomCheckpoint
  sequence_number, same_fs, flush_memtable, live_files, manifest_file_size,
  min_log_num, live_wal_files, manifest_fname, current_fname,
  live_table_and_blob_files, i,
  \* locals of ExportColumnFamily and ExportFilesInMetaData
  tmp_export_dir, db_metadata, pos, num_files, hardlink_file,
  moved_to_user_specified_dir, metadata,
  \* history: engine calls made, callbacks invoked, what the lister saw,
  \* the engine's sequence number at the authoritative enumeration
  engine_calls, ops, observed, seq_at_enum,
  \* CreateCheckpoint calls of several threads on the same target: the
  \* control state and locals of each, and who made the staging directory
  \* and who put each file of the staging and the target directory
  callers, staged

inputVars == <<op, checkpoint_dir, export_dir, log_size_for_flush, db_log_dir,
               wal_dir, allow_2pc>>
engineVars == <<read_only, latest_seq, disable_count, blob_num, file_status,
                manifest_size,
                wal_files, min_log_number_to_keep, compactions>>
ccVars == <<parsed_checkpoint_dir, full_private_path, value_log_dir,
            new_wal_dir, value_wal_dir,
            disabled_file_deletions, sequence_number_ptr>>
cccVars == <<sequence_number, same_fs, flush_memtable, live_files,
             manifest_file_size, min_log_num, live_wal_files, manifest_fname,
             current_fname, live_table_and_blob_files, i>>
exVars == <<tmp_export_dir, db_metadata, pos, num_files, hardlink_file,
            moved_to_user_specified_dir, metadata>>
histVars == <<engine_calls, ops, observed, seq_at_enum>>
concVars == <<callers, staged>>
vars == <<inputVars, engineVars, fs, pc, s, ccVars, cccVars, exVars, histVars,
          concVars>>

(***************************************************************************)
(* The filesystem: the directories the call can name, each absent or       *)
(* present with a set of files.  The root and the database directory       *)
(* always exist.                                                           *)
(***************************************************************************)
WalSubdir == <<Slash, "wal">>
Target == TargetName
Staging == TargetName \o <<TmpSuffix>>
TargetWal == Target \o WalSubdir
StagingWal == Staging \o WalSubdir
ExternalWal == <<"ext">>
AllDirs == {Target, Staging, TargetWal, StagingWal, ExternalWal}

OldFile == <<"old", 0>>
NoDir == [exists |-> FALSE, files |-> {}]
EmptyDir == [exists |-> TRUE, files |-> {}]
StaleDir == [exists |-> TRUE, files |-> {OldFile}]

\* the subdirectories of d that exist
Subdirs(f, d) == {e \in AllDirs : StartsWith(e, d \o <<Slash>>) /\ f[e].exists}

\* the directory a path names: trailing slashes do not matter
Resolve(path) == StripTrailingSlashes(path)
IsRoot(path) == path # <<>> /\ FindLastNotOfSlash(path) = 0

\* Env::FileExists(path), absent an I/O fault
FileExists(f, path) ==
  IF IsRoot(path) THEN OK
  ELSE IF Resolve(path) \in AllDirs /\ f[Resolve(path)].exists THEN OK
  ELSE NotFound

\* the statuses Env::CreateDir(path) can return: it fails when the path
\* exists or its parent does not
CreateDirOutcomes(f, path) ==
  IF /\ path \in AllDirs
     /\ ~f[path].exists
     /\ (path = StagingWal => f[Staging].exists)
     /\ (path = TargetWal => f[Target].exists)
  THEN {OK, IOError}
  ELSE {IOError}

CreateDir(f, path, st) ==
  IF st = OK THEN [f EXCEPT ![path] = EmptyDir] ELSE f

AddFile(f, dir, fname) ==
  [f EXCEPT ![dir].files = @ \cup {fname}]

\* the statuses Env::RenameFile(from, to) can return
RenameOutcomes(f, from) ==
  IF from \in AllDirs /\ f[from].exists THEN {OK, IOError} ELSE {IOError}

\* Env::RenameFile(from, to) of a directory: its subdirectory moves with it
RenameFile(f, from, to) ==
  [d \in AllDirs |->
     IF d = to THEN f[from]
     ELSE IF d = to \o WalSubdir THEN f[from \o WalSubdir]
     ELSE IF d = from \/ d = from \o WalSubdir THEN NoDir
     ELSE f[d]]

\* CheckpointImpl::CleanStagingDirectory: nothing if the directory is absent;
\* else DeleteFile on every child (which removes files, not directories),
\* then DeleteDir, which removes the directory only if it is empty by then
CleanStagingDirectory(f, path) ==
  IF FileExists(f, path) = NotFound THEN f
  ELSE IF Subdirs(f, path) = {}
       THEN [f EXCEPT ![path] = NoDir]
       ELSE [f EXCEPT ![path].files = {}]

(***************************************************************************)
(* The engine.                                                             *)
(***************************************************************************)
MaxFileNum == MaxDataFiles + MaxCompactions
FileNums == 1..MaxFileNum

LiveNums == {n \in FileNums : file_status[n] = "live"}

\* the engine's data files are table files, but for the one numbered
\* blob_num (0: none), which is a blob file
DataFileName(n) == IF n = blob_num THEN BlobFileName(n) ELSE TableFileName(n)

\* DB::GetLiveFiles: the live table and blob files, then CURRENT, the
\* manifest and the options file
GetLiveFiles ==
  LET nums == SeqOfSet(LiveNums)
  IN [k \in 1..Len(nums) |-> DataFileName(nums[k])]
       \o <<CurrentFileName, ManifestFileName, OptionsFileName>>

\* a WAL list: ascending log numbers 1..n, the first a files archived and of
\* size 1 each, the others alive, the newest of size z
WalList(n, a, z) ==
  [k \in 1..n |->
     [number |-> k,
      type |-> IF k <= a THEN kArchivedLogFile ELSE kAliveLogFile,
      size |-> IF k = n THEN z ELSE 1]]

\* the WAL lists the engine holds when a call starts: the newest file is
\* alive and still empty
WalLists == {WalList(MaxWals, a, 0) : a \in 0..1}

\* whether the source file of a transfer is still in the database directory
SrcPresent(fname) ==
  IF fname[1] \in {"sst", "blob"} THEN file_status[fname[2]] # "absent" ELSE TRUE

\* current size in bytes of a source file
FileSize(fname) ==
  IF fname[1] = "log" THEN wal_files[fname[2]].size
  ELSE IF fname[1] = "MANIFEST" THEN manifest_size
  ELSE 1

(***************************************************************************)
(* Initial states: the call has not started.                               *)
(***************************************************************************)
\* the path arguments tried: empty, slashes only, and a name with trailing
\* slashes
PathArgs == {Slashes(k) : k \in 0..MaxSlashes} \cup {TargetName \o Slashes(MaxSlashes)}
WalDirArgs == {<<>>, TargetWal, ExternalWal}
Thresholds == (0..MaxThreshold) \cup {kMaxUint64}
\* the thresholds a whole call is run with: decide by the WAL sizes, never
\* flush
CallThresholds == {2, kMaxUint64}

InitFs(targetExists, stagingExists, extExists) ==
  [d \in AllDirs |->
     IF d = Target /\ targetExists THEN StaleDir
     ELSE IF d = Staging /\ stagingExists THEN StaleDir
     ELSE IF d = ExternalWal /\ extExists THEN EmptyDir
     ELSE NoDir]

InitEngine ==
  /\ read_only \in BOOLEAN
  /\ blob_num = 1
  /\ latest_seq = 0
  /\ disable_count = 0
  /\ file_status = [n \in FileNums |-> IF n <= MaxDataFiles THEN "live" ELSE "absent"]
  /\ manifest_size = 1
  /\ wal_files \in WalLists
  \* an archived WAL file is one the engine no longer needs
  /\ min_log_number_to_keep \in {1, MaxWals}
  /\ wal_files[1].type = kArchivedLogFile => min_log_number_to_keep > 1
  /\ compactions = 0

\* nobody made the staging directory or put a file yet
NoneStaged == [creator |-> 0, writers |-> {}, committed |-> {}]

\* the locals of CreateCheckpoint before its first statement
InitCcLocals ==
  /\ s = OK
  /\ parsed_checkpoint_dir = <<>>
  /\ full_private_path = <<>>
  /\ new_wal_dir = <<>>
  /\ value_wal_dir = <<>>
  /\ value_log_dir = <<>>
  /\ disabled_file_deletions = FALSE
  /\ engine_calls = <<>>

\* the other locals and the history before the call
InitOtherLocals ==
  /\ sequence_number_ptr = -1
  /\ sequence_number = 0
  /\ same_fs = TRUE
  /\ flush_memtable = TRUE
  /\ live_files = <<>>
  /\ manifest_file_size = 0
  /\ min_log_num = kMaxUint64
  /\ live_wal_files = <<>>
  /\ manifest_fname = <<>>
  /\ current_fname = <<>>
  /\ live_table_and_blob_files = <<>>
  /\ i = 0
  /\ tmp_export_dir = <<>>
  /\ db_metadata = <<>>
  /\ pos = <<1, 1>>
  /\ num_files = 0
  /\ hardlink_file = TRUE
  /\ moved_to_user_specified_dir = FALSE
  /\ metadata = <<>>
  /\ ops = <<>>
  /\ observed = <<>>
  /\ seq_at_enum = -1

\* a single call: no other thread calls CreateCheckpoint
InitNoCallers ==
  /\ callers = <<>>
  /\ staged = NoneStaged

InitLocals == InitCcLocals /\ InitOtherLocals /\ InitNoCallers

InitCheckpoint ==
  /\ op = "CreateCheckpoint"
  /\ pc = "cc_start"
  /\ checkpoint_dir \in PathArgs
  /\ export_dir = <<>>
  /\ log_size_for_flush \in CallThresholds
  /\ allow_2pc = FALSE
  /\ wal_dir \in WalDirArgs
  /\ db_log_dir = <<>>
  /\ \E te \in BOOLEAN, se \in BOOLEAN, xe \in BOOLEAN :
       /\ xe => wal_dir = ExternalWal
       /\ fs = InitFs(te, se, xe)
  /\ InitEngine
  /\ InitLocals

InitExport ==
  /\ op = "ExportColumnFamily"
  /\ pc = "ex_start"
  /\ export_dir \in PathArgs
  /\ checkpoint_dir = <<>>
  /\ log_size_for_flush = kMaxUint64
  /\ allow_2pc = FALSE
  /\ wal_dir = <<>>
  /\ db_log_dir = <<>>
  /\ \E te \in BOOLEAN, se \in BOOLEAN : fs = InitFs(te, se, FALSE)
  /\ read_only \in BOOLEAN
  /\ latest_seq = 0
  /\ disable_count = 0
  /\ blob_num = 0
  /\ file_status = [n \in FileNums |-> IF n <= MaxDataFiles THEN "live" ELSE "absent"]
  /\ manifest_size = 1
  /\ wal_files = WalList(MaxWals, 0, 0)
  /\ min_log_number_to_keep = 1
  /\ compactions = 0
  /\ InitLocals

(***************************************************************************)
(* Engine calls (db_->...) and the callbacks, as the call sees them.       *)
(***************************************************************************)
EngineCall(api, arg, st) == [api |-> api, arg |-> arg, st |-> st]

\* the statuses DB::DisableFileDeletions can return: a read-only engine has
\* no file deletion to disable
DisableFileDeletionsOutcomes == IF read_only THEN {NotSupported} ELSE {OK, IOError}

\* CopyFile(fs, source, destination, size, use_fsync): the bytes written; a
\* size of 0 asks for the whole file
CopyFile(size_limit_bytes, file_size) ==
  IF size_limit_bytes = 0 THEN file_size ELSE Min(size_limit_bytes, file_size)

\* where link_file_cb and copy_file_cb of CreateCheckpoint put a file
DestDir(type) == IF type = kWalFile THEN new_wal_dir ELSE full_private_path

\* the statuses a link into directory dir can return
LinkFileOutcomes(fname, dir) ==
  IF SrcPresent(fname) /\ dir \in AllDirs /\ fs[dir].exists
  THEN {OK, NotSupported, IOError}
  ELSE {IOError}

\* the statuses a copy (or create) into directory dir can return
CopyFileOutcomes(fname, dir) ==
  IF SrcPresent(fname) /\ dir \in AllDirs /\ fs[dir].exists
  THEN {OK, IOError}
  ELSE {IOError}

Op(cb, fname, type, limit, bytes, st) ==
  [cb |-> cb, fname |-> fname, type |-> type, limit |-> limit,
   bytes |-> bytes, st |-> st, contents |-> <<>>]

\* link_file_cb of CreateCheckpoint, returning st
LinkOp(fname, type, st) == Op("link", fname, type, 0, 0, st)

\* lines 649-677, CopyOptionsFile: the options file is rewritten with the two
\* overridden options
CopyOptionsFile(log_dir, wal_directory) ==
  <<[db_log_dir |-> log_dir, wal_dir |-> wal_directory]>>

\* copy_file_cb of CreateCheckpoint, returning st
CopyOp(fname, size_limit_bytes, type, st) ==
  [Op("copy", fname, type, size_limit_bytes,
      IF st = OK THEN CopyFile(size_limit_bytes, FileSize(fname)) ELSE 0, st)
     EXCEPT !.contents = IF type = kOptionsFile /\ st = OK
                         THEN CopyOptionsFile(value_log_dir, value_wal_dir)
                         ELSE <<>>]

\* line 290: the engine gives the names of the live files with a leading '/'
LiveFilePath(fname) == <<Slash>> \o fname

\* line 429: manifest_fname.substr(1) + "\n"
CurrentContents(manifest_path) ==
  SubSeq(manifest_path, 2, Len(manifest_path)) \o <<"\n">>

\* create_file_cb of CreateCheckpoint, returning st
CreateOp(fname, contents, type, st) ==
  [Op("create", fname, type, 0, 0, st) EXCEPT !.contents = contents]

\* the file a successful callback leaves in its directory
Put(f, fname, type, st) ==
  IF st = OK THEN AddFile(f, DestDir(type), fname) ELSE f

(***************************************************************************)
(* CheckpointImpl::CreateCheckpoint                                        *)
(***************************************************************************)

\* the name check left out
InvalidName_Never(dir) == FALSE

\* lines 101-102 and 486-487: the name is empty or made of slashes only
InvalidName(dir) == FindLastNotOfSlash(dir) = 0

\* lines 86-115: the existence probe, the path check, the staging name
CC_Start ==
  /\ pc = "cc_start"
  /\ \E st \in {FileExists(fs, checkpoint_dir), IOError} :
       /\ IF st = OK
          THEN /\ s' = InvalidArgument
               /\ pc' = "done"
               /\ UNCHANGED <<parsed_checkpoint_dir, full_private_path>>
          ELSE IF st # NotFound
          THEN /\ s' = st
               /\ pc' = "done"
               /\ UNCHANGED <<parsed_checkpoint_dir, full_private_path>>
          ELSE IF InvalidName(checkpoint_dir)
          THEN /\ s' = InvalidArgument
               /\ pc' = "done"
               /\ UNCHANGED <<parsed_checkpoint_dir, full_private_path>>
          ELSE /\ s' = st
               /\ pc' = "cc_clean"
               /\ parsed_checkpoint_dir' =
                    SubSeq(checkpoint_dir, 1, FindLastNotOfSlash(checkpoint_dir))
               /\ full_private_path' =
                    SubSeq(checkpoint_dir, 1, FindLastNotOfSlash(checkpoint_dir))
                      \o <<TmpSuffix>>
  /\ UNCHANGED <<concVars, inputVars, engineVars, fs, cccVars, exVars, histVars,
                 new_wal_dir, value_wal_dir, value_log_dir,
                 disabled_file_deletions, sequence_number_ptr>>

\* line 116
CC_CleanStagingDirectory ==
  /\ pc = "cc_clean"
  /\ fs' = CleanStagingDirectory(fs, full_private_path)
  /\ pc' = "cc_mkdir"
  /\ UNCHANGED <<concVars, inputVars, engineVars, s, ccVars, cccVars, exVars, histVars>>

\* line 118
CC_CreateDir ==
  /\ pc = "cc_mkdir"
  /\ \E st \in CreateDirOutcomes(fs, full_private_path) :
       /\ s' = st
       /\ fs' = CreateDir(fs, full_private_path, st)
  /\ pc' = "cc_resolve"
  /\ UNCHANGED <<concVars, inputVars, engineVars, ccVars, cccVars, exVars, histVars>>

\* lines 121-124
ParsedLogDir(dir) == IF dir = <<>> THEN <<>> ELSE StripTrailingSlashes(dir)

\* lines 125-127
ParsedWalDir(dir) == IF dir = <<>> THEN <<>> ELSE StripTrailingSlashes(dir)

\* lines 139-140: WAL files go to the staging directory
WalInStaging(parsed_wal_dir, parsed_dir) ==
  \/ parsed_wal_dir = <<>>
  \/ parsed_wal_dir = DbName
  \/ parsed_wal_dir = parsed_dir

\* lines 145-151
NewWalDir(parsed_wal_dir, parsed_dir, private_path) ==
  LET prefix == parsed_dir \o <<Slash>>
  IN IF StartsWith(parsed_wal_dir, prefix)
     THEN private_path \o <<Slash>>
            \o SubSeq(parsed_wal_dir, Len(prefix) + 1, Len(parsed_wal_dir))
     ELSE parsed_wal_dir

\* the log directory recorded as given
ValueLogDir_Unchanged(parsed_log_dir, parsed_dir) == parsed_log_dir

\* lines 130-133: value_log_dir
ValueLogDir(parsed_log_dir, parsed_dir) ==
  IF parsed_log_dir = DbName \/ parsed_log_dir = parsed_dir
  THEN <<>> ELSE parsed_log_dir

\* lines 120-159: where the WAL files go; an explicit WAL directory is
\* probed and created, and the status of that replaces s
CC_ResolveDirs ==
  /\ pc = "cc_resolve"
  /\ value_log_dir' = ValueLogDir(ParsedLogDir(db_log_dir), parsed_checkpoint_dir)
  /\ LET parsed_wal_dir == ParsedWalDir(wal_dir)
     IN IF WalInStaging(parsed_wal_dir, parsed_checkpoint_dir)
        THEN /\ value_wal_dir' = parsed_checkpoint_dir
             /\ new_wal_dir' = full_private_path
             /\ UNCHANGED <<s, fs>>
             /\ pc' = IF s = OK THEN "cc_disable" ELSE "cc_finish"
        ELSE /\ value_wal_dir' = parsed_wal_dir
             /\ new_wal_dir' =
                  NewWalDir(parsed_wal_dir, parsed_checkpoint_dir, full_private_path)
             /\ \E probe \in {FileExists(fs, new_wal_dir'), IOError} :
                  IF probe = NotFound
                  THEN \E st \in CreateDirOutcomes(fs, new_wal_dir') :
                         /\ s' = st
                         /\ fs' = CreateDir(fs, new_wal_dir', st)
                         /\ pc' = IF st = OK THEN "cc_disable" ELSE "cc_finish"
                  ELSE /\ s' = probe
                       /\ UNCHANGED fs
                       /\ pc' = IF probe = OK THEN "cc_disable" ELSE "cc_finish"
  /\ UNCHANGED <<concVars, inputVars, engineVars, cccVars, exVars, histVars,
                 parsed_checkpoint_dir, full_private_path,
                 disabled_file_deletions, sequence_number_ptr>>

\* 'not supported' taken for a successful disable
DisabledFileDeletions_OrUnsupported(st) == st = OK \/ st = NotSupported

\* line 162: disabled_file_deletions
DisabledFileDeletions(st) == st = OK

\* 'not supported' taken for a fatal error
ProceedToTransfer_OnlyOK(st) == st = OK

\* the transfer started whatever DisableFileDeletions returned
ProceedToTransfer_Always(st) == TRUE

\* line 164: whether the files are enumerated and transferred
ProceedToTransfer(st) == st = OK \/ st = NotSupported

\* lines 161-164
CC_DisableFileDeletions ==
  /\ pc = "cc_disable"
  /\ \E st \in DisableFileDeletionsOutcomes :
       /\ s' = st
       /\ disabled_file_deletions' = DisabledFileDeletions(st)
       /\ disable_count' = IF st = OK THEN disable_count + 1 ELSE disable_count
       /\ engine_calls' = Append(engine_calls, EngineCall("DisableFileDeletions", "", st))
       /\ pc' = IF ProceedToTransfer(st) THEN "ccc_seq" ELSE "cc_finish"
  /\ UNCHANGED <<concVars, inputVars, fs, cccVars, exVars, ops, observed, seq_at_enum,
                 read_only, latest_seq, blob_num, file_status, manifest_size,
                 wal_files, min_log_number_to_keep, compactions,
                 parsed_checkpoint_dir, full_private_path, new_wal_dir,
                 value_wal_dir, value_log_dir, sequence_number_ptr>>

\* the rename done whatever the transfer returned
RenameWhen_Always(st) == TRUE

\* line 211: whether the staging directory is renamed to the target
RenameWhen(st) == st = OK

\* lines 203-209, after CreateCustomCheckpoint returned
CC_EnableFileDeletions ==
  /\ pc = "cc_enable"
  /\ IF disabled_file_deletions
     THEN /\ disable_count' = disable_count - 1
          /\ engine_calls' = Append(engine_calls, EngineCall("EnableFileDeletions", "", OK))
     ELSE UNCHANGED <<disable_count, engine_calls>>
  /\ pc' = IF RenameWhen(s) THEN "cc_rename" ELSE "cc_finish"
  /\ UNCHANGED <<concVars, inputVars, fs, s, ccVars, cccVars, exVars, ops, observed,
                 seq_at_enum, read_only, latest_seq, blob_num, file_status,
                 manifest_size, wal_files, min_log_number_to_keep, compactions>>

\* lines 211-214
CC_RenameFile ==
  /\ pc = "cc_rename"
  /\ \E st \in RenameOutcomes(fs, full_private_path) :
       /\ s' = st
       /\ fs' = IF st = OK
                THEN RenameFile(fs, full_private_path, parsed_checkpoint_dir)
                ELSE fs
       /\ pc' = IF st = OK THEN "cc_fsync" ELSE "cc_finish"
  /\ UNCHANGED <<concVars, inputVars, engineVars, ccVars, cccVars, exVars, histVars>>

\* lines 215-222: NewDirectory on the target, then Fsync
CC_Fsync ==
  /\ pc = "cc_fsync"
  /\ s = OK
  /\ \E st \in {OK, IOError} : s' = st
  /\ pc' = "cc_finish"
  /\ UNCHANGED <<concVars, inputVars, engineVars, fs, ccVars, cccVars, exVars, histVars>>

\* the sequence number read again when the call returns
ReportedSequenceNumber_AtReturn == latest_seq

\* line 226: the value written through sequence_number_ptr
ReportedSequenceNumber == sequence_number

\* lines 224-238
CC_Finish ==
  /\ pc = "cc_finish"
  /\ IF s = OK
     THEN /\ sequence_number_ptr' = ReportedSequenceNumber
          /\ UNCHANGED fs
     ELSE /\ fs' = CleanStagingDirectory(fs, full_private_path)
          /\ UNCHANGED sequence_number_ptr
  /\ pc' = "done"
  /\ UNCHANGED <<concVars, inputVars, engineVars, s, cccVars, exVars, histVars,
                 parsed_checkpoint_dir, full_private_path, new_wal_dir,
                 value_wal_dir, value_log_dir, disabled_file_deletions>>

(***************************************************************************)
(* CheckpointImpl::CreateCustomCheckpoint, called from CreateCheckpoint    *)
(* with get_live_table_checksum = false.  A return goes to "cc_enable".    *)
(***************************************************************************)
\* lines 256-262
CCC_GetLatestSequenceNumber ==
  /\ pc = "ccc_seq"
  /\ s' = OK
  /\ sequence_number' = latest_seq
  /\ same_fs' = TRUE
  /\ min_log_num' = kMaxUint64
  /\ manifest_file_size' = 0
  /\ engine_calls' =
       Append(engine_calls, EngineCall("GetLatestSequenceNumber", latest_seq, OK))
  /\ pc' = "ccc_flushdec"
  /\ UNCHANGED <<concVars, inputVars, engineVars, fs, ccVars, exVars, ops, observed,
                 seq_at_enum, flush_memtable, live_files, live_wal_files,
                 manifest_fname, current_fname, live_table_and_blob_files, i>>

\* lines 279-282: the sum of SizeFileBytes over the list GetSortedWalFiles gave
RECURSIVE TotalWalSize(_)
TotalWalSize(files) ==
  IF files = <<>> THEN 0
  ELSE (files[1].size + TotalWalSize(Tail(files))) % (kMaxUint64 + 1)

\* lines 265-268: whether the decision needs the WAL sizes
NeedsWalSizes(two_pc, threshold) ==
  ~two_pc /\ threshold # kMaxUint64 /\ threshold > 0

\* the flush skipped also when the total equals the threshold
FlushMemtable_SkipAtThreshold(two_pc, threshold, total_wal_size) ==
  IF two_pc THEN TRUE
  ELSE IF threshold = kMaxUint64 THEN FALSE
  ELSE IF threshold > 0 THEN ~(total_wal_size <= threshold)
  ELSE TRUE

\* lines 264-288: flush_memtable, given the total of the WAL sizes
FlushMemtable(two_pc, threshold, total_wal_size) ==
  IF two_pc THEN TRUE
  ELSE IF threshold = kMaxUint64 THEN FALSE
  ELSE IF threshold > 0 THEN ~(total_wal_size < threshold)
  ELSE TRUE

\* lines 264-288
CCC_FlushDecision ==
  /\ pc = "ccc_flushdec"
  /\ IF NeedsWalSizes(allow_2pc, log_size_for_flush)
     THEN \E st \in {OK, IOError} :
            /\ s' = st
            /\ engine_calls' = Append(engine_calls, EngineCall("GetSortedWalFiles", "", st))
            /\ IF st = OK
               THEN /\ flush_memtable' =
                         FlushMemtable(allow_2pc, log_size_for_flush, TotalWalSize(wal_files))
                    /\ pc' = "ccc_live1"
               ELSE /\ UNCHANGED flush_memtable
                    /\ pc' = "cc_enable"
     ELSE /\ flush_memtable' = FlushMemtable(allow_2pc, log_size_for_flush, 0)
          /\ pc' = "ccc_live1"
          /\ UNCHANGED <<s, engine_calls>>
  /\ UNCHANGED <<concVars, inputVars, engineVars, fs, ccVars, exVars, ops, observed,
                 seq_at_enum, sequence_number, same_fs, live_files,
                 manifest_file_size, min_log_num, live_wal_files, manifest_fname,
                 current_fname, live_table_and_blob_files, i>>

FlushArg(flush) == IF flush THEN "flush" ELSE "noflush"

\* line 291: the first enumeration; its status is overwritten at line 307
CCC_GetLiveFiles1 ==
  /\ pc = "ccc_live1"
  /\ \E st \in {OK, IOError} :
       /\ s' = st
       /\ engine_calls' =
            Append(engine_calls, EngineCall("GetLiveFiles", FlushArg(flush_memtable), st))
       /\ IF st = OK
          THEN /\ live_files' = GetLiveFiles
               /\ manifest_file_size' = manifest_size
          ELSE UNCHANGED <<live_files, manifest_file_size>>
  /\ pc' = "ccc_minlog"
  /\ UNCHANGED <<concVars, inputVars, engineVars, fs, ccVars, exVars, ops, observed,
                 seq_at_enum, sequence_number, same_fs, flush_memtable,
                 min_log_num, live_wal_files, manifest_fname, current_fname,
                 live_table_and_blob_files, i>>

\* lines 293-295
CCC_GetMinLogNumberToKeep ==
  /\ pc = "ccc_minlog"
  /\ \E got \in BOOLEAN :
       IF got
       THEN /\ min_log_num' = min_log_number_to_keep
            /\ engine_calls' = Append(engine_calls, EngineCall("GetIntProperty", "", OK))
            /\ pc' = "ccc_live2"
            /\ UNCHANGED s
       ELSE /\ s' = InvalidArgument
            /\ engine_calls' =
                 Append(engine_calls, EngineCall("GetIntProperty", "", InvalidArgument))
            /\ pc' = "cc_enable"
            /\ UNCHANGED min_log_num
  /\ UNCHANGED <<concVars, inputVars, engineVars, fs, ccVars, exVars, ops, observed,
                 seq_at_enum, sequence_number, same_fs, flush_memtable, live_files,
                 manifest_file_size, live_wal_files, manifest_fname, current_fname,
                 live_table_and_blob_files, i>>

\* line 307: the second, authoritative enumeration; on failure lines 313-326
\* return its status
CCC_GetLiveFiles2 ==
  /\ pc = "ccc_live2"
  /\ \E st \in {OK, IOError} :
       /\ s' = st
       /\ engine_calls' =
            Append(engine_calls, EngineCall("GetLiveFiles", FlushArg(flush_memtable), st))
       /\ IF st = OK
          THEN /\ live_files' = GetLiveFiles
               /\ manifest_file_size' = manifest_size
               /\ seq_at_enum' = latest_seq
               /\ pc' = "ccc_flushwal"
          ELSE /\ UNCHANGED <<live_files, manifest_file_size, seq_at_enum>>
               /\ pc' = "cc_enable"
  /\ UNCHANGED <<concVars, inputVars, engineVars, fs, ccVars, exVars, ops, observed,
                 sequence_number, same_fs, flush_memtable, min_log_num,
                 live_wal_files, manifest_fname, current_fname,
                 live_table_and_blob_files, i>>

\* lines 313-315
CCC_FlushWAL ==
  /\ pc = "ccc_flushwal"
  /\ s = OK
  /\ \E st \in {OK, IOError} :
       /\ s' = st
       /\ engine_calls' = Append(engine_calls, EngineCall("FlushWAL", "", st))
       /\ pc' = IF st = OK THEN "ccc_wals" ELSE "cc_enable"
  /\ UNCHANGED <<concVars, inputVars, engineVars, fs, ccVars, exVars, ops, observed,
                 seq_at_enum, cccVars>>

\* lines 321-328
CCC_GetSortedWalFiles ==
  /\ pc = "ccc_wals"
  /\ s = OK
  /\ \E st \in {OK, IOError} :
       /\ s' = st
       /\ engine_calls' = Append(engine_calls, EngineCall("GetSortedWalFiles", "", st))
       /\ IF st = OK
          THEN /\ live_wal_files' = wal_files
               /\ i' = 1
               /\ pc' = IF live_files = <<>> THEN "ccc_current" ELSE "ccc_files"
          ELSE /\ UNCHANGED <<live_wal_files, i>>
               /\ pc' = "cc_enable"
  /\ UNCHANGED <<concVars, inputVars, engineVars, fs, ccVars, exVars, ops, observed,
                 seq_at_enum, sequence_number, same_fs, flush_memtable, live_files,
                 manifest_file_size, min_log_num, manifest_fname, current_fname,
                 live_table_and_blob_files>>

\* where the loop over live_files goes after entry k, given the status
AfterLiveFile(k, st, tables) ==
  IF st = OK /\ k < Len(live_files) THEN "ccc_files"
  ELSE IF st = OK /\ tables # <<>> THEN "ccc_tables"
  ELSE "ccc_current"

\* the manifest copied whole
SizeLimit_WholeFile(type, manifest_size_captured) == 0

\* line 364: the size limit of the copy in the loop over live_files
SizeLimit(type, manifest_size_captured) ==
  IF type = kDescriptorFile THEN manifest_size_captured ELSE 0

\* lines 335-370: one pass of the loop over live_files
CCC_ProcessLiveFile ==
  /\ pc = "ccc_files"
  /\ i \in 1..Len(live_files)
  /\ LET live_file == live_files[i]
         parsed == ParseFileName(live_file)
         type == parsed.type
     IN IF ~parsed.ok
        THEN /\ s' = Corruption
             /\ pc' = AfterLiveFile(i, Corruption, live_table_and_blob_files)
             /\ UNCHANGED <<fs, ops, current_fname, manifest_fname,
                            live_table_and_blob_files>>
        ELSE IF type = kCurrentFile
        THEN /\ current_fname' = live_file
             /\ pc' = AfterLiveFile(i, s, live_table_and_blob_files)
             /\ UNCHANGED <<s, fs, ops, manifest_fname, live_table_and_blob_files>>
        ELSE IF type # kTableFile /\ type # kBlobFile
        THEN /\ manifest_fname' =
                  IF type = kDescriptorFile THEN live_file ELSE manifest_fname
             /\ \E st \in CopyFileOutcomes(live_file, DestDir(type)) :
                  /\ s' = st
                  /\ ops' = Append(ops,
                       CopyOp(live_file, SizeLimit(type, manifest_file_size), type, st))
                  /\ fs' = Put(fs, live_file, type, st)
                  /\ pc' = AfterLiveFile(i, st, live_table_and_blob_files)
             /\ UNCHANGED <<current_fname, live_table_and_blob_files>>
        ELSE /\ live_table_and_blob_files' =
                  Append(live_table_and_blob_files, <<live_file, parsed.number, type>>)
             /\ pc' = AfterLiveFile(i, s, live_table_and_blob_files')
             /\ UNCHANGED <<s, fs, ops, current_fname, manifest_fname>>
  /\ i' = IF pc' = "ccc_files" THEN i + 1 ELSE 1
  /\ UNCHANGED <<concVars, inputVars, engineVars, ccVars, exVars, engine_calls, observed,
                 seq_at_enum, sequence_number, same_fs, flush_memtable, live_files,
                 manifest_file_size, min_log_num, live_wal_files>>

\* same_fs never cleared
SameFsAfterLink_Kept(samefs, link_st) == samefs

\* lines 400-401 and 452-453: same_fs after a link attempt returned link_st
SameFsAfterLink(samefs, link_st) == samefs /\ link_st # NotSupported

\* lines 398-426 and 449-460: link while same_fs, fall back to copy when the
\* link is not supported; gives <<status, same_fs, callbacks, filesystem>>
LinkOrCopy(fname, type, samefs, link_st, copy_st) ==
  LET linked == IF samefs THEN <<LinkOp(fname, type, link_st)>> ELSE <<>>
      st1 == IF samefs /\ link_st # NotSupported THEN link_st ELSE OK
      samefs1 == SameFsAfterLink(samefs, link_st)
      f1 == IF samefs THEN Put(fs, fname, type, link_st) ELSE fs
  IN IF ~samefs1
     THEN <<copy_st, samefs1,
            linked \o <<CopyOp(fname, 0, type, copy_st)>>,
            Put(f1, fname, type, copy_st)>>
     ELSE <<st1, samefs1, linked, f1>>

\* lines 386-427: one pass of the loop over live_table_and_blob_files
CCC_TransferTableFile ==
  /\ pc = "ccc_tables"
  /\ s = OK
  /\ i \in 1..Len(live_table_and_blob_files)
  /\ LET src_fname == live_table_and_blob_files[i][1]
         type == live_table_and_blob_files[i][3]
     IN \E link_st \in LinkFileOutcomes(src_fname, DestDir(type)),
           copy_st \in CopyFileOutcomes(src_fname, DestDir(type)) :
          LET r == LinkOrCopy(src_fname, type, same_fs, link_st, copy_st)
          IN /\ s' = r[1]
             /\ same_fs' = r[2]
             /\ ops' = ops \o r[3]
             /\ fs' = r[4]
             /\ pc' = IF r[1] = OK /\ i < Len(live_table_and_blob_files)
                      THEN "ccc_tables" ELSE "ccc_current"
  /\ i' = IF pc' = "ccc_tables" THEN i + 1 ELSE 1
  /\ UNCHANGED <<concVars, inputVars, engineVars, ccVars, exVars, engine_calls, observed,
                 seq_at_enum, sequence_number, flush_memtable, live_files,
                 manifest_file_size, min_log_num, live_wal_files, manifest_fname,
                 current_fname, live_table_and_blob_files>>

\* line 428
CreateCurrentWhen(st, current, manifest) ==
  st = OK /\ current # <<>> /\ manifest # <<>>

\* lines 428-433: CURRENT is written from the manifest's name
CCC_CreateCurrent ==
  /\ pc = "ccc_current"
  /\ IF CreateCurrentWhen(s, current_fname, manifest_fname)
     THEN \E st \in CopyFileOutcomes(current_fname, full_private_path) :
            /\ s' = st
            /\ ops' = Append(ops,
                 CreateOp(current_fname,
                          CurrentContents(LiveFilePath(manifest_fname)),
                          kCurrentFile, st))
            /\ fs' = Put(fs, current_fname, kCurrentFile, st)
     ELSE UNCHANGED <<s, ops, fs>>
  /\ i' = 1
  /\ pc' = IF s' = OK /\ live_wal_files # <<>> THEN "ccc_wal" ELSE "cc_enable"
  /\ UNCHANGED <<concVars, inputVars, engineVars, ccVars, exVars, engine_calls, observed,
                 seq_at_enum, sequence_number, same_fs, flush_memtable, live_files,
                 manifest_file_size, min_log_num, live_wal_files, manifest_fname,
                 current_fname, live_table_and_blob_files>>

\* every alive WAL file, whatever its log number
WalSelected_AnyAlive(wal, flush, min_log) == wal.type = kAliveLogFile

\* lines 440-442: the WAL files that go into the checkpoint
WalSelected(wal, flush, min_log) ==
  /\ wal.type = kAliveLogFile
  /\ (~flush \/ wal.number >= min_log)

\* lines 439-462: one pass of the loop over live_wal_files
CCC_TransferWal ==
  /\ pc = "ccc_wal"
  /\ s = OK
  /\ i \in 1..Len(live_wal_files)
  /\ LET wal == live_wal_files[i]
         fname == LogFileName(wal.number)
         wal_size == Len(live_wal_files)
     IN IF ~WalSelected(wal, flush_memtable, min_log_num)
        THEN /\ pc' = IF i < wal_size THEN "ccc_wal" ELSE "cc_enable"
             /\ UNCHANGED <<s, same_fs, ops, fs>>
        ELSE IF i = wal_size
        THEN \E st \in CopyFileOutcomes(fname, new_wal_dir) :
               /\ s' = st
               /\ ops' = Append(ops, CopyOp(fname, wal.size, kWalFile, st))
               /\ fs' = Put(fs, fname, kWalFile, st)
               /\ pc' = "cc_enable"
               /\ UNCHANGED same_fs
        ELSE \E link_st \in LinkFileOutcomes(fname, new_wal_dir),
                copy_st \in CopyFileOutcomes(fname, new_wal_dir) :
               LET r == LinkOrCopy(fname, kWalFile, same_fs, link_st, copy_st)
               IN /\ s' = r[1]
                  /\ same_fs' = r[2]
                  /\ ops' = ops \o r[3]
                  /\ fs' = r[4]
                  /\ pc' = IF r[1] = OK /\ i < wal_size THEN "ccc_wal" ELSE "cc_enable"
  /\ i' = IF pc' = "ccc_wal" THEN i + 1 ELSE 1
  /\ UNCHANGED <<concVars, inputVars, engineVars, ccVars, exVars, engine_calls, observed,
                 seq_at_enum, sequence_number, flush_memtable, live_files,
                 manifest_file_size, min_log_num, live_wal_files, manifest_fname,
                 current_fname, live_table_and_blob_files>>

(***************************************************************************)
(* CheckpointImpl::ExportColumnFamily                                      *)
(***************************************************************************)

\* one file of ColumnFamilyMetaData
FileMeta(n) == [name |-> TableFileName(n), size |-> 1, file_number |-> n]

FilesOf(nums) ==
  LET q == SeqOfSet(nums) IN [k \in 1..Len(q) |-> FileMeta(q[k])]

\* DB::GetColumnFamilyMetaData: the column family holds some of the engine's
\* live table files, spread over its levels
CfMetaData ==
  LET tables == {n \in LiveNums : n # blob_num}
  IN {[l \in 1..nl |-> [level |-> l - 1, files |-> FilesOf({n \in held : at[n] = l})]] :
        <<held, nl, at>> \in
          UNION {UNION {{<<h, k, a>> : a \in [h -> 1..k]} : k \in 0..MaxLevels} :
                   h \in SUBSET tables}}

\* the first file at or after level l: <<level, index>>, <<0, 0>> if none
RECURSIVE FirstFileFrom(_, _)
FirstFileFrom(meta, l) ==
  IF l > Len(meta) THEN <<0, 0>>
  ELSE IF meta[l].files # <<>> THEN <<l, 1>>
  ELSE FirstFileFrom(meta, l + 1)

\* lines 611-642: the file the loops reach after <<l, k>>; a break leaves
\* the inner loop only
NextFile(meta, l, k, broke) ==
  IF ~broke /\ k < Len(meta[l].files) THEN <<l, k + 1>>
  ELSE FirstFileFrom(meta, l + 1)

\* lines 478-496: the existence probe, the path check, the staging name
EX_Start ==
  /\ pc = "ex_start"
  /\ \E st \in {FileExists(fs, export_dir), IOError} :
       IF st = OK
       THEN /\ s' = InvalidArgument
            /\ pc' = "done"
            /\ UNCHANGED tmp_export_dir
       ELSE IF st # NotFound
       THEN /\ s' = st
            /\ pc' = "done"
            /\ UNCHANGED tmp_export_dir
       ELSE IF InvalidName(export_dir)
       THEN /\ s' = InvalidArgument
            /\ pc' = "done"
            /\ UNCHANGED tmp_export_dir
       ELSE /\ s' = st
            /\ pc' = "ex_mkdir"
            /\ tmp_export_dir' =
                 SubSeq(export_dir, 1, FindLastNotOfSlash(export_dir)) \o <<TmpSuffix>>
  /\ UNCHANGED <<concVars, inputVars, engineVars, fs, ccVars, cccVars, histVars, db_metadata,
                 pos, num_files, hardlink_file, moved_to_user_specified_dir,
                 metadata>>

\* line 497
EX_CreateDir ==
  /\ pc = "ex_mkdir"
  /\ \E st \in CreateDirOutcomes(fs, tmp_export_dir) :
       /\ s' = st
       /\ fs' = CreateDir(fs, tmp_export_dir, st)
       /\ pc' = IF st = OK THEN "ex_flush" ELSE "ex_finish"
  /\ UNCHANGED <<concVars, inputVars, engineVars, ccVars, cccVars, exVars, histVars>>

\* lines 499-501
EX_Flush ==
  /\ pc = "ex_flush"
  /\ s = OK
  /\ \E st \in {OK, IOError} :
       /\ s' = st
       /\ engine_calls' = Append(engine_calls, EngineCall("Flush", "", st))
       /\ pc' = IF st = OK THEN "ex_disable" ELSE "ex_finish"
  /\ UNCHANGED <<concVars, inputVars, engineVars, fs, ccVars, cccVars, exVars, ops, observed,
                 seq_at_enum>>

\* lines 504-507
EX_DisableFileDeletions ==
  /\ pc = "ex_disable"
  /\ s = OK
  /\ \E st \in DisableFileDeletionsOutcomes :
       /\ s' = st
       /\ disable_count' = IF st = OK THEN disable_count + 1 ELSE disable_count
       /\ engine_calls' = Append(engine_calls, EngineCall("DisableFileDeletions", "", st))
       /\ pc' = IF st = OK THEN "ex_meta" ELSE "ex_finish"
  /\ UNCHANGED <<concVars, inputVars, fs, ccVars, cccVars, exVars, ops, observed, seq_at_enum,
                 read_only, latest_seq, blob_num, file_status, manifest_size,
                 wal_files, min_log_number_to_keep, compactions>>

\* lines 508 and 606-610: the metadata is captured, the transfer starts
EX_GetColumnFamilyMetaData ==
  /\ pc = "ex_meta"
  /\ \E meta \in CfMetaData :
       /\ db_metadata' = meta
       /\ pos' = FirstFileFrom(meta, 1)
       /\ pc' = IF FirstFileFrom(meta, 1) = <<0, 0>> THEN "ex_enable" ELSE "efm_file"
  /\ s' = OK
  /\ hardlink_file' = TRUE
  /\ num_files' = 0
  /\ engine_calls' = Append(engine_calls, EngineCall("GetColumnFamilyMetaData", "", OK))
  /\ UNCHANGED <<concVars, inputVars, engineVars, fs, ccVars, cccVars, ops, observed,
                 seq_at_enum, tmp_export_dir, moved_to_user_specified_dir, metadata>>

\* the fallback taken on any file, as in CreateCustomCheckpoint
FallbackToCopy_AnyFile(files_so_far, st) == st = NotSupported

\* line 629: the link failure that turns the transfer to copying
FallbackToCopy(files_so_far, st) == files_so_far = 1 /\ st = NotSupported

\* lines 612-640: one pass of the inner loop of ExportFilesInMetaData
EFM_TransferFile ==
  /\ pc = "efm_file"
  /\ LET file_metadata == db_metadata[pos[1]].files[pos[2]]
         src_fname == file_metadata.name
         parsed == ParseFileName(src_fname)
     IN IF ~parsed.ok
        THEN /\ s' = Corruption
             /\ UNCHANGED <<num_files, hardlink_file, ops, fs>>
        ELSE /\ num_files' = num_files + 1
             /\ \E link_st \in LinkFileOutcomes(src_fname, tmp_export_dir),
                   copy_st \in CopyFileOutcomes(src_fname, tmp_export_dir) :
                  LET linked == IF hardlink_file
                                THEN <<LinkOp(src_fname, kTableFile, link_st)>>
                                ELSE <<>>
                      f1 == IF hardlink_file /\ link_st = OK
                            THEN AddFile(fs, tmp_export_dir, src_fname) ELSE fs
                      hardlink1 == hardlink_file /\ ~FallbackToCopy(num_files', link_st)
                      s1 == IF ~hardlink_file THEN s
                            ELSE IF FallbackToCopy(num_files', link_st) THEN OK
                            ELSE link_st
                  IN /\ hardlink_file' = hardlink1
                     /\ IF ~hardlink1
                        THEN /\ s' = copy_st
                             /\ ops' = ops \o linked
                                  \o <<CopyOp(src_fname, 0, kTableFile, copy_st)>>
                             /\ fs' = IF copy_st = OK
                                      THEN AddFile(f1, tmp_export_dir, src_fname)
                                      ELSE f1
                        ELSE /\ s' = s1
                             /\ ops' = ops \o linked
                             /\ fs' = f1
  /\ pos' = NextFile(db_metadata, pos[1], pos[2], s' # OK)
  /\ pc' = IF pos' = <<0, 0>> THEN "ex_enable" ELSE "efm_file"
  /\ UNCHANGED <<concVars, inputVars, engineVars, ccVars, cccVars, engine_calls, observed,
                 seq_at_enum, tmp_export_dir, db_metadata,
                 moved_to_user_specified_dir, metadata>>

\* line 205 asserts that DB::EnableFileDeletions succeeds
EnableFileDeletionsOutcomes == {OK}

\* lines 525-528
EX_EnableFileDeletions ==
  /\ pc = "ex_enable"
  /\ disable_count' = disable_count - 1
  /\ \E enable_status \in EnableFileDeletionsOutcomes :
       /\ engine_calls' =
            Append(engine_calls, EngineCall("EnableFileDeletions", "", enable_status))
       /\ s' = IF s = OK THEN enable_status ELSE s
  /\ pc' = IF s' = OK THEN "ex_rename" ELSE "ex_finish"
  /\ UNCHANGED <<concVars, inputVars, fs, ccVars, cccVars, exVars, ops, observed, seq_at_enum,
                 read_only, latest_seq, blob_num, file_status, manifest_size,
                 wal_files, min_log_number_to_keep, compactions>>

\* lines 532-536
EX_RenameFile ==
  /\ pc = "ex_rename"
  /\ s = OK
  /\ \E st \in RenameOutcomes(fs, tmp_export_dir) :
       /\ s' = st
       /\ fs' = IF st = OK THEN RenameFile(fs, tmp_export_dir, Resolve(export_dir))
                ELSE fs
       /\ pc' = IF st = OK THEN "ex_fsync" ELSE "ex_finish"
  /\ UNCHANGED <<concVars, inputVars, engineVars, ccVars, cccVars, exVars, histVars>>

\* lines 538-547: NewDirectory on the export directory, then Fsync
EX_Fsync ==
  /\ pc = "ex_fsync"
  /\ s = OK
  /\ moved_to_user_specified_dir' = TRUE
  /\ \E st \in {OK, IOError} : s' = st
  /\ pc' = "ex_finish"
  /\ UNCHANGED <<concVars, inputVars, engineVars, fs, ccVars, cccVars, histVars,
                 tmp_export_dir, db_metadata, pos, num_files, hardlink_file,
                 metadata>>

\* lines 553-568: the records of the result, level by level
RECURSIVE ResultFiles(_)
ResultFiles(levels) ==
  IF levels = <<>> THEN <<>>
  ELSE [k \in 1..Len(levels[1].files) |->
          [name |-> levels[1].files[k].name,
           size |-> levels[1].files[k].size,
           file_number |-> levels[1].files[k].file_number,
           level |-> levels[1].level]]
         \o ResultFiles(Tail(levels))

\* lines 577-593: GetChildren and DeleteFile on each child, then DeleteDir
ExportCleanup(f, cleanup_dir) ==
  IF ~(cleanup_dir \in AllDirs /\ f[cleanup_dir].exists) THEN f
  ELSE IF Subdirs(f, cleanup_dir) = {}
       THEN [f EXCEPT ![cleanup_dir] = NoDir]
       ELSE [f EXCEPT ![cleanup_dir].files = {}]

\* the staging directory cleaned whether or not the rename happened
CleanupDir_AlwaysStaging(moved) == tmp_export_dir

\* lines 578-579: cleanup_dir
CleanupDir(moved) == IF moved THEN Resolve(export_dir) ELSE tmp_export_dir

\* lines 549-595; *metadata is assigned inside the loop over the levels
EX_Finish ==
  /\ pc = "ex_finish"
  /\ IF s = OK
     THEN /\ metadata' = IF db_metadata = <<>> THEN metadata
                         ELSE <<[db_comparator_name |-> "comparator",
                                 files |-> ResultFiles(db_metadata)]>>
          /\ UNCHANGED fs
     ELSE /\ fs' = ExportCleanup(fs, CleanupDir(moved_to_user_specified_dir))
          /\ UNCHANGED metadata
  /\ pc' = "done"
  /\ UNCHANGED <<concVars, inputVars, engineVars, s, ccVars, cccVars, histVars,
                 tmp_export_dir, db_metadata, pos, num_files, hardlink_file,
                 moved_to_user_specified_dir>>

(***************************************************************************)
(* The engine's own activity and the lister, while the call runs.          *)
(***************************************************************************)
Running == pc # "done"

\* a write: the sequence number advances and the newest WAL file grows
EngineWrite ==
  /\ Running
  /\ ~read_only
  /\ latest_seq < MaxWrites
  /\ latest_seq' = latest_seq + 1
  /\ wal_files' = [wal_files EXCEPT ![Len(wal_files)].size = @ + 1]
  /\ UNCHANGED <<concVars, inputVars, fs, pc, s, ccVars, cccVars, exVars, histVars,
                 read_only, disable_count, blob_num, file_status, manifest_size,
                 min_log_number_to_keep, compactions>>

\* a flush or compaction: a live file becomes obsolete, a new file replaces
\* it, and the manifest grows by the version edit
EngineCompact ==
  /\ Running
  /\ ~read_only
  /\ compactions < MaxCompactions
  /\ \E old \in LiveNums :
       file_status' = [file_status EXCEPT ![old] = "obsolete",
                                           ![MaxDataFiles + compactions + 1] = "live"]
  /\ manifest_size' = manifest_size + 1
  /\ compactions' = compactions + 1
  /\ UNCHANGED <<concVars, inputVars, fs, pc, s, ccVars, cccVars, exVars, histVars,
                 read_only, latest_seq, disable_count, blob_num, wal_files,
                 min_log_number_to_keep>>

\* the engine deletes its obsolete files, unless file deletions are disabled
EngineDeleteObsoleteFiles ==
  /\ Running
  /\ ~read_only
  /\ disable_count = 0
  /\ \E n \in FileNums : file_status[n] = "obsolete"
  /\ file_status' = [n \in FileNums |->
                       IF file_status[n] = "obsolete" THEN "absent" ELSE file_status[n]]
  /\ UNCHANGED <<concVars, inputVars, fs, pc, s, ccVars, cccVars, exVars, histVars,
                 read_only, latest_seq, disable_count, blob_num, manifest_size,
                 wal_files, min_log_number_to_keep, compactions>>


\* what a listing of the target directory shows
Listing(f) ==
  [files |-> f[Target].files,
   wal |-> IF f[TargetWal].exists THEN f[TargetWal].files ELSE {}]

\* another process lists the target directory; it keeps what it found there
ListTarget ==
  /\ fs[Target].exists
  /\ observed' = <<Listing(fs)>>
  /\ UNCHANGED <<concVars, inputVars, engineVars, fs, pc, s, ccVars, cccVars, exVars,
                 engine_calls, ops, seq_at_enum>>

Next ==
  \/ CC_Start
  \/ CC_CleanStagingDirectory
  \/ CC_CreateDir
  \/ CC_ResolveDirs
  \/ CC_DisableFileDeletions
  \/ CCC_GetLatestSequenceNumber
  \/ CCC_FlushDecision
  \/ CCC_GetLiveFiles1
  \/ CCC_GetMinLogNumberToKeep
  \/ CCC_GetLiveFiles2
  \/ CCC_FlushWAL
  \/ CCC_GetSortedWalFiles
  \/ CCC_ProcessLiveFile
  \/ CCC_TransferTableFile
  \/ CCC_CreateCurrent
  \/ CCC_TransferWal
  \/ CC_EnableFileDeletions
  \/ CC_RenameFile
  \/ CC_Fsync
  \/ CC_Finish
  \/ EX_Start
  \/ EX_CreateDir
  \/ EX_Flush
  \/ EX_DisableFileDeletions
  \/ EX_GetColumnFamilyMetaData
  \/ EFM_TransferFile
  \/ EX_EnableFileDeletions
  \/ EX_RenameFile
  \/ EX_Fsync
  \/ EX_Finish
  \/ EngineWrite
  \/ EngineCompact
  \/ EngineDeleteObsoleteFiles
  \/ ListTarget

Init == InitCheckpoint \/ InitExport

Spec == Init /\ [][Next]_vars

(***************************************************************************)
(* The memtable-flush decision over every threshold, two-phase-commit      *)
(* setting and WAL list: CreateCustomCheckpoint from its entry to the      *)
(* first GetLiveFiles, which carries the decision to the engine.           *)
(***************************************************************************)
FlushWalLists ==
  UNION {UNION {{[k \in 1..n |->
                    [number |-> k,
                     type |-> IF k <= a THEN kArchivedLogFile ELSE kAliveLogFile,
                     size |-> sz[k]]] :
                   sz \in [1..n -> 0..MaxWalSize]} :
                a \in 0..(n - 1)} :
         n \in 1..MaxWals}

\* CreateCheckpoint has created the staging directory and disabled file
\* deletions, and calls CreateCustomCheckpoint
InitFlush ==
  /\ op = "CreateCheckpoint"
  /\ pc = "ccc_seq"
  /\ checkpoint_dir = TargetName
  /\ export_dir = <<>>
  /\ log_size_for_flush \in Thresholds
  /\ allow_2pc \in BOOLEAN
  /\ wal_dir = <<>>
  /\ db_log_dir = <<>>
  /\ fs = [d \in AllDirs |-> IF d = Staging THEN EmptyDir ELSE NoDir]
  /\ read_only = FALSE
  /\ latest_seq = 0
  /\ disable_count = 1
  /\ blob_num = 1
  /\ file_status = [n \in FileNums |-> IF n <= MaxDataFiles THEN "live" ELSE "absent"]
  /\ manifest_size = 1
  /\ wal_files \in FlushWalLists
  /\ min_log_number_to_keep = 1
  /\ compactions = 0
  /\ s = OK
  /\ parsed_checkpoint_dir = TargetName
  /\ full_private_path = Staging
  /\ new_wal_dir = Staging
  /\ value_wal_dir = TargetName
  /\ value_log_dir = <<>>
  /\ disabled_file_deletions = TRUE
  /\ engine_calls = <<EngineCall("DisableFileDeletions", "", OK)>>
  /\ InitOtherLocals
  /\ InitNoCallers

NextFlush ==
  \/ CCC_GetLatestSequenceNumber
  \/ CCC_FlushDecision
  \/ CCC_GetLiveFiles1

SpecFlush == InitFlush /\ [][NextFlush]_vars

(***************************************************************************)
(* CreateCheckpoint alone, over the overrides of the log and WAL           *)
(* directories.                                                            *)
(***************************************************************************)
ExternalLog == <<"logs">>

\* wal_dir: empty, the source directory, the target directory, a directory
\* below the target, an external directory; with and without a trailing slash
WalDirOverrides ==
  {<<>>, DbName, DbName \o <<Slash>>, Target, Target \o <<Slash>>, TargetWal,
   ExternalWal, ExternalWal \o <<Slash>>}

\* db_log_dir: empty, the source directory, the target directory, an
\* external directory
LogDirOverrides ==
  {<<>>, DbName \o <<Slash>>, Target, ExternalLog, ExternalLog \o <<Slash>>}

InitOptions ==
  /\ op = "CreateCheckpoint"
  /\ pc = "cc_start"
  /\ checkpoint_dir = TargetName \o Slashes(MaxSlashes)
  /\ export_dir = <<>>
  /\ log_size_for_flush = kMaxUint64
  /\ allow_2pc = FALSE
  /\ wal_dir \in WalDirOverrides
  /\ db_log_dir \in LogDirOverrides
  /\ fs = InitFs(FALSE, FALSE, FALSE)
  /\ read_only = FALSE
  /\ latest_seq = 0
  /\ disable_count = 0
  /\ blob_num = 1
  /\ file_status = [n \in FileNums |-> IF n <= MaxDataFiles THEN "live" ELSE "absent"]
  /\ manifest_size = 1
  /\ wal_files = WalList(MaxWals, 0, 0)
  /\ min_log_number_to_keep = 1
  /\ compactions = 0
  /\ InitLocals

NextOptions ==
  \/ CC_Start
  \/ CC_CleanStagingDirectory
  \/ CC_CreateDir
  \/ CC_ResolveDirs
  \/ CC_DisableFileDeletions
  \/ CCC_GetLatestSequenceNumber
  \/ CCC_FlushDecision
  \/ CCC_GetLiveFiles1
  \/ CCC_GetMinLogNumberToKeep
  \/ CCC_GetLiveFiles2
  \/ CCC_FlushWAL
  \/ CCC_GetSortedWalFiles
  \/ CCC_ProcessLiveFile
  \/ CCC_TransferTableFile
  \/ CCC_CreateCurrent
  \/ CCC_TransferWal
  \/ CC_EnableFileDeletions
  \/ CC_RenameFile
  \/ CC_Fsync
  \/ CC_Finish

SpecOptions == InitOptions /\ [][NextOptions]_vars

(***************************************************************************)
(* CreateCheckpoint called by two threads at once for the same target.     *)
(* Each thread runs the steps of CreateCheckpoint on its own locals; the   *)
(* filesystem and the engine are shared.  No I/O fault is injected: an     *)
(* operation fails only by the state the directories are in.               *)
(***************************************************************************)
Callers == {1, 2}

\* the paths both calls compute at lines 108-109
CoTarget == StripTrailingSlashes(checkpoint_dir)
CoStaging == CoTarget \o <<TmpSuffix>>

\* Env::CreateDir, absent an I/O fault
CreateDirStatus(f, path) ==
  IF OK \in CreateDirOutcomes(f, path) THEN OK ELSE IOError

\* FileSystem::LinkFile, absent an I/O fault: it fails when the directory is
\* missing or holds the name already
LinkFileStatus(f, dir, fname) ==
  IF f[dir].exists /\ fname \notin f[dir].files THEN OK ELSE IOError

\* CopyFile and CreateFile, absent an I/O fault: they open the destination
\* for writing, replacing a file of that name
WriteFileStatus(f, dir) == IF f[dir].exists THEN OK ELSE IOError

\* Env::RenameFile of a directory, absent an I/O fault: it fails when the
\* source is missing or the destination is a directory that is not empty
RenameDirStatus(f, from, to) ==
  IF f[from].exists /\ ~(f[to].exists /\ f[to].files # {}) THEN OK ELSE IOError

\* lines 335-462 in the order the callbacks are invoked: the manifest and the
\* options file copied, the table and blob files linked, CURRENT created,
\* the selected WAL files linked and the last one copied
TransferPlan(live, wals, flush, min_log) ==
  LET step(f, cb) == [fname |-> f, cb |-> cb, type |-> ParseFileName(f).type]
      copies == SelectSeq(live, LAMBDA f :
                  ParseFileName(f).type \in {kDescriptorFile, kOptionsFile})
      links == SelectSeq(live, LAMBDA f :
                  ParseFileName(f).type \in {kTableFile, kBlobFile})
      logs == SelectSeq([j \in 1..Len(wals) |->
                           [wal |-> wals[j],
                            cb |-> IF j = Len(wals) THEN "copy" ELSE "link"]],
                        LAMBDA e : WalSelected(e.wal, flush, min_log))
  IN [j \in 1..Len(copies) |-> step(copies[j], "copy")]
       \o [j \in 1..Len(links) |-> step(links[j], "link")]
       \o <<step(CurrentFileName, "create")>>
       \o [j \in 1..Len(logs) |-> step(LogFileName(logs[j].wal.number), logs[j].cb)]

\* the locals of a call before its first statement
InitCaller ==
  [pc |-> "cc_start", s |-> OK, plan |-> <<>>, k |-> 0,
   disabled_file_deletions |-> FALSE, sequence_number_ptr |-> -1]

\* who made the staging directory and put its files, after a
\* CleanStagingDirectory that left the filesystem f
AfterClean(f, st) ==
  IF f[CoStaging].exists THEN [st EXCEPT !.writers = {}]
  ELSE [st EXCEPT !.creator = 0, !.writers = {}]

\* what no step of the concurrent calls changes
coFrozen ==
  <<inputVars, read_only, latest_seq, blob_num, file_status, manifest_size,
    wal_files, min_log_number_to_keep, compactions, pc, s, ccVars, cccVars,
    exVars, histVars>>

\* lines 88-109
Co_Start(c) ==
  /\ callers[c].pc = "cc_start"
  /\ LET st == FileExists(fs, checkpoint_dir)
     IN callers' = [callers EXCEPT
          ![c].s = IF st = OK \/ InvalidName(checkpoint_dir)
                   THEN InvalidArgument ELSE st,
          ![c].pc = IF st = OK \/ InvalidName(checkpoint_dir)
                    THEN "done" ELSE "cc_clean"]
  /\ UNCHANGED <<coFrozen, fs, disable_count, staged>>

\* line 116
Co_CleanStagingDirectory(c) ==
  /\ callers[c].pc = "cc_clean"
  /\ fs' = CleanStagingDirectory(fs, CoStaging)
  /\ staged' = AfterClean(fs', staged)
  /\ callers' = [callers EXCEPT ![c].pc = "cc_mkdir"]
  /\ UNCHANGED <<coFrozen, disable_count>>

\* lines 118-156, the WAL directory not overridden: new_wal_dir is the
\* staging directory
Co_CreateDir(c) ==
  /\ callers[c].pc = "cc_mkdir"
  /\ LET st == CreateDirStatus(fs, CoStaging)
     IN /\ fs' = CreateDir(fs, CoStaging, st)
        /\ staged' = IF st = OK THEN [staged EXCEPT !.creator = c] ELSE staged
        /\ callers' = [callers EXCEPT
             ![c].s = st,
             ![c].pc = IF st = OK THEN "cc_disable" ELSE "cc_finish"]
  /\ UNCHANGED <<coFrozen, disable_count>>

\* lines 161-164, on a writable engine
Co_DisableFileDeletions(c) ==
  /\ callers[c].pc = "cc_disable"
  /\ disable_count' = disable_count + 1
  /\ callers' = [callers EXCEPT
       ![c].s = OK,
       ![c].disabled_file_deletions = DisabledFileDeletions(OK),
       ![c].pc = IF ProceedToTransfer(OK) THEN "ccc_live" ELSE "cc_finish"]
  /\ UNCHANGED <<coFrozen, fs, staged>>

\* lines 256-333: the flush decision, the enumerations and the WAL list
Co_GetLiveFiles(c) ==
  /\ callers[c].pc = "ccc_live"
  /\ callers' = [callers EXCEPT
       ![c].plan = TransferPlan(GetLiveFiles, wal_files,
                                FlushMemtable(allow_2pc, log_size_for_flush, 0),
                                min_log_number_to_keep),
       ![c].k = 1,
       ![c].pc = "ccc_transfer"]
  /\ UNCHANGED <<coFrozen, fs, disable_count, staged>>

\* lines 335-462: one callback
Co_Transfer(c) ==
  /\ callers[c].pc = "ccc_transfer"
  /\ LET step == callers[c].plan[callers[c].k]
         st == IF step.cb = "link"
               THEN LinkFileStatus(fs, CoStaging, step.fname)
               ELSE WriteFileStatus(fs, CoStaging)
     IN /\ fs' = IF st = OK THEN AddFile(fs, CoStaging, step.fname) ELSE fs
        /\ staged' =
             IF st = OK
             THEN [staged EXCEPT !.writers =
                     {w \in @ : w[1] # step.fname} \cup {<<step.fname, c>>}]
             ELSE staged
        /\ callers' = [callers EXCEPT
             ![c].s = st,
             ![c].k = @ + 1,
             ![c].pc = IF st = OK /\ callers[c].k < Len(callers[c].plan)
                       THEN "ccc_transfer" ELSE "cc_enable"]
  /\ UNCHANGED <<coFrozen, disable_count>>

\* lines 203-209
Co_EnableFileDeletions(c) ==
  /\ callers[c].pc = "cc_enable"
  /\ disable_count' = IF callers[c].disabled_file_deletions
                      THEN disable_count - 1 ELSE disable_count
  /\ callers' = [callers EXCEPT
       ![c].pc = IF RenameWhen(callers[c].s) THEN "cc_rename" ELSE "cc_finish"]
  /\ UNCHANGED <<coFrozen, fs, staged>>

\* lines 211-214
Co_RenameFile(c) ==
  /\ callers[c].pc = "cc_rename"
  /\ LET st == RenameDirStatus(fs, CoStaging, CoTarget)
     IN /\ fs' = IF st = OK THEN RenameFile(fs, CoStaging, CoTarget) ELSE fs
        /\ staged' = IF st = OK
                     THEN [creator |-> 0, writers |-> {},
                           committed |-> staged.writers]
                     ELSE staged
        /\ callers' = [callers EXCEPT
             ![c].s = st,
             ![c].pc = IF st = OK THEN "cc_fsync" ELSE "cc_finish"]
  /\ UNCHANGED <<coFrozen, disable_count>>

\* lines 215-222
Co_Fsync(c) ==
  /\ callers[c].pc = "cc_fsync"
  /\ callers' = [callers EXCEPT
       ![c].s = WriteFileStatus(fs, CoTarget),
       ![c].pc = "cc_finish"]
  /\ UNCHANGED <<coFrozen, fs, disable_count, staged>>

\* lines 224-238
Co_Finish(c) ==
  /\ callers[c].pc = "cc_finish"
  /\ IF callers[c].s = OK
     THEN /\ callers' = [callers EXCEPT ![c].sequence_number_ptr = latest_seq,
                                        ![c].pc = "done"]
          /\ UNCHANGED <<fs, staged>>
     ELSE /\ fs' = CleanStagingDirectory(fs, CoStaging)
          /\ staged' = AfterClean(fs', staged)
          /\ callers' = [callers EXCEPT ![c].pc = "done"]
  /\ UNCHANGED <<coFrozen, disable_count>>

InitConcurrent ==
  /\ op = "CreateCheckpoint"
  /\ pc = "done"
  /\ checkpoint_dir \in {TargetName \o Slashes(k) : k \in 0..MaxSlashes}
  /\ export_dir = <<>>
  /\ log_size_for_flush = kMaxUint64
  /\ allow_2pc = FALSE
  /\ wal_dir = <<>>
  /\ db_log_dir = <<>>
  /\ \E se \in BOOLEAN : fs = InitFs(FALSE, se, FALSE)
  /\ read_only = FALSE
  /\ blob_num = 1
  /\ latest_seq = 0
  /\ disable_count = 0
  /\ file_status = [n \in FileNums |-> IF n <= MaxDataFiles THEN "live" ELSE "absent"]
  /\ manifest_size = 1
  /\ wal_files = WalList(MaxWals, 0, 0)
  /\ min_log_number_to_keep = 1
  /\ compactions = 0
  /\ InitCcLocals
  /\ InitOtherLocals
  /\ callers = [c \in Callers |-> InitCaller]
  /\ staged = NoneStaged

NextConcurrent ==
  \/ \E c \in Callers : Co_Start(c)
  \/ \E c \in Callers : Co_CleanStagingDirectory(c)
  \/ \E c \in Callers : Co_CreateDir(c)
  \/ \E c \in Callers : Co_DisableFileDeletions(c)
  \/ \E c \in Callers : Co_GetLiveFiles(c)
  \/ \E c \in Callers : Co_Transfer(c)
  \/ \E c \in Callers : Co_EnableFileDeletions(c)
  \/ \E c \in Callers : Co_RenameFile(c)
  \/ \E c \in Callers : Co_Fsync(c)
  \/ \E c \in Callers : Co_Finish(c)

SpecConcurrent == InitConcurrent /\ [][NextConcurrent]_vars

(***************************************************************************)
(* Properties.                                                             *)
(***************************************************************************)
IsCheckpoint == op = "CreateCheckpoint"
IsExport == op = "ExportColumnFamily"

\* the call passed its precondition check
Accepted ==
  IF IsCheckpoint THEN parsed_checkpoint_dir # <<>> ELSE tmp_export_dir # <<>>

Calls(api) == {k \in DOMAIN engine_calls : engine_calls[k].api = api}
OkCalls(api) == {k \in Calls(api) : engine_calls[k].st = OK}

UnsupportedLinks ==
  {k \in DOMAIN ops : ops[k].cb = "link" /\ ops[k].st = NotSupported}

\* the WAL files of the captured list that the WAL pass transfers
SelectedWalIdx ==
  {k \in DOMAIN live_wal_files :
     WalSelected(live_wal_files[k], flush_memtable, min_log_num)}
SelectedWals == {LogFileName(live_wal_files[k].number) : k \in SelectedWalIdx}

\* what the target directory lists when it holds the complete snapshot
SnapshotListing ==
  [files |-> {live_files[k] : k \in DOMAIN live_files}
               \cup (IF new_wal_dir = full_private_path THEN SelectedWals ELSE {}),
   wal |-> IF new_wal_dir = StagingWal THEN SelectedWals ELSE {}]

CompleteSnapshot ==
  /\ Listing(fs) = SnapshotListing
  /\ new_wal_dir = ExternalWal => SelectedWals \subseteq fs[ExternalWal].files

\* C1: during a CreateCheckpoint call that found the target absent, the
\* target does not exist or holds the complete snapshot (so a lister never
\* finds it partial), and the target comes into existence only by the rename
\* of the staging directory.
C1_AtomicVisibility ==
  /\ []((IsCheckpoint /\ Accepted) =>
          /\ fs[Target].exists =>
               (pc \in {"cc_fsync", "cc_finish", "done"} /\ CompleteSnapshot)
          /\ ~fs[Target].exists => ~fs[TargetWal].exists
          /\ observed # <<>> => observed[1] = SnapshotListing)
  /\ [][(IsCheckpoint /\ ~fs[Target].exists /\ fs'[Target].exists) =>
          (pc = "cc_rename" /\ fs'[Target] = fs[Staging])]_vars

C1_Witness ==
  /\ IsCheckpoint /\ Accepted
  /\ fs[Target].exists
  /\ observed = <<Listing(fs)>>
  /\ compactions > 0
  /\ latest_seq > 0
  /\ new_wal_dir = StagingWal
  /\ SelectedWals # {}

\* C2: a CreateCheckpoint call that passed its precondition check and
\* returned a non-OK status leaves neither the target directory nor the
\* staging directory.
C2_FailedCheckpointLeavesNothing ==
  (IsCheckpoint /\ Accepted /\ pc = "done" /\ s # OK) =>
    (~fs[Target].exists /\ ~fs[Staging].exists)

\* C3: EnableFileDeletions is called exactly once after a DisableFileDeletions
\* that returned OK and never otherwise, so the engine's suppression count is
\* back at its entry value (0) when the call returns.
C3_DeletionPairing ==
  LET disabled == OkCalls("DisableFileDeletions")
      enabled == Calls("EnableFileDeletions")
  IN /\ Cardinality(Calls("DisableFileDeletions")) <= 1
     /\ Cardinality(enabled) <= Cardinality(disabled)
     /\ \A e \in enabled : \E d \in disabled : d < e
     /\ disable_count = Cardinality(disabled) - Cardinality(enabled)
     /\ pc = "done" =>
          (Cardinality(enabled) = Cardinality(disabled) /\ disable_count = 0)

C3_Witness ==
  /\ IsCheckpoint
  /\ pc = "done"
  /\ s = InvalidArgument
  /\ Cardinality(Calls("EnableFileDeletions")) = 1
  /\ ops = <<>>

\* the call is between its first enumeration and its last transfer
InTransferSpan ==
  pc \in {"ccc_live1", "ccc_minlog", "ccc_live2", "ccc_flushwal", "ccc_wals",
          "ccc_files", "ccc_tables", "ccc_current", "ccc_wal",
          "ex_meta", "efm_file"}

IsDataFile(fname) == fname[1] \in {"sst", "blob"}

\* the data files listed to the call and not transferred yet
PendingFiles ==
  IF pc \in {"ccc_minlog", "ccc_live2", "ccc_flushwal", "ccc_wals", "ccc_files"}
  THEN {live_files[k] : k \in {j \in DOMAIN live_files : IsDataFile(live_files[j])}}
  ELSE IF pc = "ccc_tables"
  THEN {live_table_and_blob_files[k][1] :
          k \in {j \in DOMAIN live_table_and_blob_files : j >= i}}
  ELSE IF pc = "efm_file"
  THEN {db_metadata[l].files[k].name :
          <<l, k>> \in {q \in (DOMAIN db_metadata) \X (1..MaxFileNum) :
                          /\ q[2] \in DOMAIN db_metadata[q[1]].files
                          /\ (q[1] > pos[1] \/ (q[1] = pos[1] /\ q[2] >= pos[2]))}}
  ELSE {}

C5_SeqAtAuthoritativeEnumeration ==
  (IsCheckpoint /\ pc = "done" /\ s = OK) => sequence_number_ptr = seq_at_enum

\* C5 as amended: the sequence number reported by a successful
\* CreateCheckpoint is the value GetLatestSequenceNumber returned at the
\* entry of CreateCustomCheckpoint, before the WAL sizes are read and before
\* both enumerations; it never exceeds the engine's sequence number at the
\* authoritative enumeration.
C5_SeqReadAtEntry ==
  (IsCheckpoint /\ pc = "done" /\ s = OK) =>
    /\ \E k \in Calls("GetLatestSequenceNumber") :
         /\ engine_calls[k].arg = sequence_number_ptr
         /\ \A j \in Calls("GetLiveFiles") \cup Calls("GetSortedWalFiles") : k < j
    /\ Cardinality(Calls("GetLatestSequenceNumber")) = 1
    /\ sequence_number_ptr <= seq_at_enum

C5_Witness ==
  /\ IsCheckpoint /\ pc = "done" /\ s = OK
  /\ sequence_number_ptr = 0
  /\ seq_at_enum = 1

RECURSIVE SumSizes(_, _)
SumSizes(files, types) ==
  IF files = <<>> THEN 0
  ELSE (IF files[1].type \in types THEN files[1].size ELSE 0)
         + SumSizes(Tail(files), types)

\* the flush decision has been taken
FlushDecided == pc \in {"ccc_live1", "ccc_minlog"}

\* the decision as the claim words it, for a sum of WAL sizes
ClaimedFlush(sum) ==
  \/ allow_2pc
  \/ /\ log_size_for_flush # kMaxUint64
     /\ ~(log_size_for_flush > 0 /\ sum < log_size_for_flush)

\* what the first GetLiveFiles was asked: "flush" or "noflush"
FlushAsked == engine_calls[Len(engine_calls)].arg

\* C6 as claimed: a flush is always requested with two-phase commit; else
\* none with the threshold unset, none with a positive threshold above the
\* summed size of the alive WAL files, and one in every other case.
C6_FlushDecisionAliveWals ==
  FlushDecided =>
    /\ flush_memtable = ClaimedFlush(SumSizes(wal_files, {kAliveLogFile}))
    /\ pc = "ccc_minlog" =>
         FlushAsked = FlushArg(ClaimedFlush(SumSizes(wal_files, {kAliveLogFile})))

\* C6 as amended: the same decision, the sum taken over every WAL file that
\* GetSortedWalFiles lists, archived files included.
C6_FlushDecisionAllWals ==
  FlushDecided =>
    /\ flush_memtable =
         ClaimedFlush(SumSizes(wal_files, {kAliveLogFile, kArchivedLogFile}))
    /\ pc = "ccc_minlog" =>
         FlushAsked =
           FlushArg(ClaimedFlush(SumSizes(wal_files, {kAliveLogFile, kArchivedLogFile})))

C6_Witness ==
  /\ pc = "ccc_minlog"
  /\ ~allow_2pc
  /\ log_size_for_flush \in 1..MaxThreshold
  /\ SumSizes(wal_files, {kArchivedLogFile}) > 0
  /\ ~flush_memtable
  /\ FlushAsked = "noflush"

\* C7: in CreateCheckpoint same_fs is true until a link attempt fails as not
\* supported; from then on it is false, the file of that attempt is copied,
\* and no link is attempted again, on table, blob or WAL files.
C7_StickyCopyFallback ==
  IsCheckpoint =>
    /\ same_fs <=> UnsupportedLinks = {}
    /\ \A k \in UnsupportedLinks :
         /\ k < Len(ops)
         /\ ops[k + 1].cb = "copy"
         /\ ops[k + 1].fname = ops[k].fname
         /\ \A j \in DOMAIN ops : j > k => ops[j].cb # "link"

C7_Witness ==
  /\ IsCheckpoint
  /\ ~same_fs
  /\ \E k \in UnsupportedLinks, j \in DOMAIN ops :
       /\ ops[k].type \in {kTableFile, kBlobFile}
       /\ k < j
       /\ ops[j].cb = "copy"
       /\ ops[j].type = kWalFile
       /\ ops[j].fname # LogFileName(Len(live_wal_files))

\* C8: the last alive WAL file selected for transfer is copied, never linked,
\* with a byte limit equal to its size in the captured list, and the bytes
\* copied never exceed that size.
C8_LastWalExactCopy ==
  (IsCheckpoint /\ SelectedWalIdx # {}) =>
    LET last == CHOOSE k \in SelectedWalIdx : \A j \in SelectedWalIdx : j <= k
    IN \A k \in DOMAIN ops :
         (ops[k].type = kWalFile
            /\ ops[k].fname = LogFileName(live_wal_files[last].number)) =>
           /\ ops[k].cb = "copy"
           /\ ops[k].limit = live_wal_files[last].size
           /\ ops[k].bytes <= live_wal_files[last].size

\* the path argument of the call
CallDir == IF IsCheckpoint THEN checkpoint_dir ELSE export_dir

\* the target exists, or the path is empty or made of slashes only
Rejected ==
  \/ FileExists(fs, CallDir) = OK
  \/ \A k \in DOMAIN CallDir : CallDir[k] = Slash

\* the first step of the call
FirstStep == pc \in {"cc_start", "ex_start"} /\ pc' # pc

\* C9 as claimed: when the target exists or the path is empty or only
\* slashes, the call fails with an invalid-argument error in its first step,
\* which changes neither the filesystem nor the engine and makes no engine
\* call and no transfer.
C9_RejectedInvalidArgument ==
  [][(FirstStep /\ Rejected) =>
       /\ pc' = "done"
       /\ s' = InvalidArgument
       /\ UNCHANGED <<fs, engineVars, engine_calls, ops>>]_vars

\* C9 as amended: the same, the status being invalid-argument or, when the
\* existence probe itself fails, the I/O error of the probe.
C9_RejectedWithoutSideEffects ==
  [][(FirstStep /\ Rejected) =>
       /\ pc' = "done"
       /\ s' \in {InvalidArgument, IOError}
       /\ UNCHANGED <<fs, engineVars, engine_calls, ops>>]_vars

C9_Witness ==
  /\ pc = "done"
  /\ s = InvalidArgument
  /\ CallDir # <<>>
  /\ fs[Target].exists
  /\ fs[Staging] = StaleDir
  /\ engine_calls = <<>>
  /\ ops = <<>>

\* C10 as claimed: in ExportColumnFamily a link that fails as not supported,
\* on whichever file, is absorbed: the file is copied, every file after it
\* is copied and not linked, and the status is not returned.
C10_ExportFallbackAnyFile ==
  IsExport =>
    /\ \A k \in UnsupportedLinks :
         /\ k < Len(ops)
         /\ ops[k + 1].cb = "copy"
         /\ ops[k + 1].fname = ops[k].fname
         /\ \A j \in DOMAIN ops : j > k => ops[j].cb = "copy"
    /\ (pc = "done" /\ ops # <<>>) => s # NotSupported

\* C10 as amended: the link failure is absorbed only on the first file the
\* transfer attempts: that file and every file after it is copied, never
\* linked, and the call does not return 'not supported'.  On a later file it
\* is not absorbed: the file is not copied and linking stays on.
C10_ExportFallbackFirstFile ==
  IsExport =>
    /\ 1 \in UnsupportedLinks =>
         /\ Len(ops) >= 2
         /\ ops[2].cb = "copy"
         /\ ops[2].fname = ops[1].fname
         /\ \A j \in DOMAIN ops : j > 1 => ops[j].cb = "copy"
         /\ ~hardlink_file
         /\ s # NotSupported
    /\ \A k \in UnsupportedLinks : k > 1 =>
         /\ hardlink_file
         /\ \A j \in DOMAIN ops : ops[j].cb = "link"
         /\ \A j \in DOMAIN ops : j # k => ops[j].fname # ops[k].fname

C10_Witness ==
  /\ IsExport
  /\ pc = "done"
  /\ s = OK
  /\ 1 \in UnsupportedLinks
  /\ Len(ops) = 3
  /\ ops[2].fname # ops[3].fname
  /\ {ops[2].fname, ops[3].fname} \subseteq fs[Target].files

CapturedFiles ==
  {<<l, k>> \in (DOMAIN db_metadata) \X (1..MaxFileNum) :
     k \in DOMAIN db_metadata[l].files}

\* C12: a successful ExportColumnFamily hands the caller a metadata result
\* with the comparator name and exactly one record per table file of the
\* captured column-family metadata, in level order, and the records
\* correspond one to one to the files in the export directory, whatever the
\* shape of the captured metadata (no file, no level).
C12_ExportMetadata ==
  (IsExport /\ pc = "done" /\ s = OK) =>
    /\ metadata # <<>>
    /\ metadata[1].db_comparator_name = "comparator"
    /\ Len(metadata[1].files) = Cardinality(CapturedFiles)
    /\ \A q \in CapturedFiles :
         \E k \in DOMAIN metadata[1].files :
           /\ metadata[1].files[k].name = db_metadata[q[1]].files[q[2]].name
           /\ metadata[1].files[k].size = db_metadata[q[1]].files[q[2]].size
           /\ metadata[1].files[k].file_number = db_metadata[q[1]].files[q[2]].file_number
           /\ metadata[1].files[k].level = db_metadata[q[1]].level
    /\ \A j, k \in DOMAIN metadata[1].files :
         j < k => metadata[1].files[j].level <= metadata[1].files[k].level
    /\ {metadata[1].files[k].name : k \in DOMAIN metadata[1].files} = fs[Target].files

\* the callbacks of the export that failed without being absorbed
FatalExportOps ==
  {k \in DOMAIN ops :
     /\ ops[k].st # OK
     /\ ~(k = 1 /\ ops[k].cb = "link" /\ ops[k].st = NotSupported)}

\* C14: in ExportColumnFamily the first fatal error of the transfer stops
\* the processing of every remaining file of every remaining level, no link
\* or copy is attempted after it, the export returns that error, and an
\* export returns OK only if every listed table file was transferred.
C14_ExportFirstErrorStops ==
  IsExport =>
    /\ \A k \in FatalExportOps : k = Len(ops)
    /\ pc = "done" => \A k \in FatalExportOps : s = ops[k].st
    /\ (pc = "done" /\ s = OK) =>
         \A q \in CapturedFiles :
           db_metadata[q[1]].files[q[2]].name \in fs[Target].files

\* the engine calls of the enumeration that failed
FailedEnumerationCalls ==
  {k \in DOMAIN engine_calls :
     /\ engine_calls[k].api \in {"GetLiveFiles", "GetIntProperty", "FlushWAL",
                                 "GetSortedWalFiles"}
     /\ engine_calls[k].st # OK}

\* the callbacks of the checkpoint that failed, but for the links that are
\* not supported and fall back to a copy
FatalCheckpointOps ==
  {k \in DOMAIN ops :
     ops[k].st # OK /\ ~(ops[k].cb = "link" /\ ops[k].st = NotSupported)}

\* C13: in CreateCheckpoint the first fatal error of the enumeration or the
\* transfer (a failed engine call, a failed copy, link or create) stops all
\* file processing: no callback is invoked after it, it is the status the
\* call returns, and the staging directory is removed.
C13_FirstErrorStops ==
  IsCheckpoint =>
    /\ FailedEnumerationCalls # {} => ops = <<>>
    /\ \A k \in FatalCheckpointOps : k = Len(ops)
    /\ pc = "done" =>
         /\ \A k \in FailedEnumerationCalls :
              (\A j \in FailedEnumerationCalls : k <= j) => s = engine_calls[k].st
         /\ \A k \in FatalCheckpointOps : s = ops[k].st
         /\ (FailedEnumerationCalls # {} \/ FatalCheckpointOps # {}) =>
              ~fs[Staging].exists

\* C15: in CreateCheckpoint and in ExportColumnFamily a staging directory
\* left by an earlier attempt is purged before the staging directory is
\* created, so the creation finds no directory in its way and no stale file
\* reaches the committed result.
C15_StaleStagingPurged ==
  /\ []((pc = "done" /\ s = OK /\ Accepted) => OldFile \notin fs[Target].files)
  /\ [][(pc \in {"cc_mkdir", "ex_mkdir"} /\ pc' # pc) => ~fs[Staging].exists]_vars

\* C16: when the creation of the staging directory fails, CreateCheckpoint
\* returns that error without calling DisableFileDeletions, enumerating or
\* transferring anything, whatever the WAL-directory override is.
C16_StagingCreateErrorReturned ==
  /\ [][(IsCheckpoint /\ pc = "cc_resolve" /\ pc' # pc /\ s # OK) =>
          (pc' = "cc_finish" /\ s' = s)]_vars
  /\ [][(IsCheckpoint /\ pc = "cc_finish" /\ pc' # pc) =>
          (pc' = "done" /\ s' = s /\ UNCHANGED <<engine_calls, ops>>)]_vars

\* C17: when CreateCheckpoint fails after it transferred some files, nothing
\* it created is left: neither the staging nor the target directory, no WAL
\* subdirectory, and no WAL file in an external WAL directory.
C17_PartialWorkCleaned ==
  (/\ IsCheckpoint /\ Accepted
   /\ pc = "done" /\ s # OK
   /\ \E k \in DOMAIN ops : ops[k].st = OK) =>
    /\ \A d \in {Target, Staging, TargetWal, StagingWal} : ~fs[d].exists
    /\ fs[ExternalWal].files = {}

\* the overrides without their trailing slashes
StrippedLogDir == SubSeq(db_log_dir, 1, FindLastNotOfSlash(db_log_dir))
StrippedWalDir == SubSeq(wal_dir, 1, FindLastNotOfSlash(wal_dir))

\* the options files written into the snapshot
OptionsWritten ==
  {k \in DOMAIN ops : ops[k].type = kOptionsFile /\ ops[k].st = OK}

\* the files are being transferred and the staging directory is not renamed
BeforeRename ==
  pc \in {"ccc_files", "ccc_tables", "ccc_current", "ccc_wal", "cc_enable",
          "cc_rename"}

\* where the transferred files are found before the rename
FilesPlaced(wal_dest) ==
  BeforeRename =>
    \A k \in DOMAIN ops :
      ops[k].st = OK =>
        IF ops[k].type = kWalFile
        THEN /\ ops[k].fname \in fs[wal_dest].files
             /\ wal_dest # Staging => ops[k].fname \notin fs[Staging].files
        ELSE ops[k].fname \in fs[Staging].files

\* C18 as claimed: an override of the WAL or log directory that equals the
\* source or the target directory is recorded as empty in the options file
\* of the snapshot; an external WAL directory is recorded as given and
\* receives the WAL files, all other files going to the staging directory.
C18_OverridesRecordedEmpty ==
  IsCheckpoint =>
    /\ \A k \in OptionsWritten :
         /\ StrippedLogDir \in {DbName, Target} => ops[k].contents[1].db_log_dir = <<>>
         /\ StrippedWalDir \in {DbName, Target} => ops[k].contents[1].wal_dir = <<>>
         /\ StrippedWalDir = ExternalWal => ops[k].contents[1].wal_dir = ExternalWal
    /\ StrippedWalDir = ExternalWal => FilesPlaced(ExternalWal)

\* C18 as amended: a log-directory override that is empty or equals the
\* source or the target directory is recorded as empty, any other as given
\* without its trailing slashes.  A WAL-directory override that is empty or
\* equals the source or the target directory is recorded as the target
\* directory and the WAL files go to the staging directory; any other is
\* recorded as given without its trailing slashes and receives the WAL files
\* directly, or in the staging directory when it lies below the target.
\* All other files go to the staging directory.
C18_OverridesResolved ==
  IsCheckpoint =>
    /\ \A k \in OptionsWritten :
         /\ ops[k].contents[1].db_log_dir =
              IF StrippedLogDir \in {<<>>, DbName, Target} THEN <<>> ELSE StrippedLogDir
         /\ ops[k].contents[1].wal_dir =
              IF StrippedWalDir \in {<<>>, DbName, Target} THEN Target ELSE StrippedWalDir
    /\ FilesPlaced(IF StrippedWalDir \in {<<>>, DbName, Target} THEN Staging
                   ELSE IF StrippedWalDir = TargetWal THEN StagingWal
                   ELSE StrippedWalDir)

C18_Witness ==
  /\ IsCheckpoint
  /\ pc = "done" /\ s = OK
  /\ wal_dir = DbName \o <<Slash>>
  /\ db_log_dir = ExternalLog \o <<Slash>>
  /\ OptionsWritten # {}
  /\ \A k \in OptionsWritten :
       ops[k].contents = <<[db_log_dir |-> ExternalLog, wal_dir |-> Target]>>
  /\ LogFileName(1) \in fs[Target].files

\* the stages of CreateCustomCheckpoint after the second enumeration
AfterEnumeration ==
  pc \in {"ccc_flushwal", "ccc_wals", "ccc_files", "ccc_tables", "ccc_current", "ccc_wal"}

\* the copy of the manifest made by the call
ManifestCopies == {k \in 1..Len(ops) : ops[k].type = kDescriptorFile}

\* C19: the second enumeration's result replaces the first one's: its
\* manifest size and its file list are what the call holds from then on;
\* the manifest is copied with that size as its cap, so the snapshot's
\* manifest holds no byte the engine appended later; and every table or blob
\* file transferred is a file of the second enumeration.
C19_ManifestCappedAtEnumeration ==
  /\ [][(pc = "ccc_live2" /\ pc' = "ccc_flushwal")
          => /\ manifest_file_size' = manifest_size
             /\ live_files' = GetLiveFiles]_vars
  /\ [][(IsCheckpoint /\ AfterEnumeration)
          => UNCHANGED <<manifest_file_size, live_files>>]_vars
  /\ []((IsCheckpoint /\ (AfterEnumeration \/ pc = "cc_enable"))
          => /\ \A k \in ManifestCopies :
                  /\ ops[k].cb = "copy"
                  /\ ops[k].limit = manifest_file_size
                  /\ ops[k].bytes <= manifest_file_size
             /\ \A k \in 1..Len(ops) :
                  IsDataFile(ops[k].fname)
                    => \E j \in 1..Len(live_files) : live_files[j] = ops[k].fname)

\* the engine appended to the manifest after the second enumeration and
\* before the manifest was copied: the copy stops at the captured size
C19_Witness ==
  /\ IsCheckpoint
  /\ pc = "done"
  /\ s = OK
  /\ \E k \in ManifestCopies :
       /\ ops[k].st = OK
       /\ ops[k].bytes = manifest_file_size
       /\ ops[k].bytes < manifest_size

\* the callbacks that wrote CURRENT through the create-file operation
CurrentCreations == {k \in DOMAIN ops : ops[k].cb = "create"}

\* C20: CreateCheckpoint never links or copies CURRENT; it creates CURRENT
\* at most once, through the create-file operation, with the manifest's base
\* name and a newline as its content, after every listed table and blob file
\* was transferred and before any WAL file; it does so once every earlier
\* step succeeded, and not after a step that failed.
C20_CurrentCreatedOnce ==
  IsCheckpoint =>
    /\ \A k \in DOMAIN ops :
         ops[k].cb \in {"link", "copy"} =>
           (ops[k].type # kCurrentFile /\ ops[k].fname # CurrentFileName)
    /\ Cardinality(CurrentCreations) <= 1
    /\ pc = "ccc_wal" => CurrentCreations # {}
    /\ \A k \in CurrentCreations :
         /\ ops[k].fname = CurrentFileName
         /\ ops[k].contents = ManifestFileName \o <<"\n">>
         /\ \A j \in DOMAIN ops :
              /\ IsDataFile(ops[j].fname) => j < k
              /\ ops[j].type = kWalFile => j > k
         /\ \A q \in DOMAIN live_table_and_blob_files :
              \E j \in 1..(k - 1) :
                /\ ops[j].fname = live_table_and_blob_files[q][1]
                /\ ops[j].st = OK
         /\ \A j \in FatalCheckpointOps : j >= k
         /\ FailedEnumerationCalls = {}

\* the callbacks that transferred a WAL file
WalOps == {k \in DOMAIN ops : ops[k].type = kWalFile}

\* the WAL files of the engine's list the claim selects: alive, and needed
\* whatever their number when the flush was skipped, else at or above the
\* minimum log number to keep
ClaimedWals ==
  {LogFileName(live_wal_files[k].number) : k \in
     {j \in DOMAIN live_wal_files :
        /\ live_wal_files[j].type = kAliveLogFile
        /\ (~flush_memtable \/ live_wal_files[j].number >= min_log_num)}}

\* C21: in CreateCheckpoint only the selected WAL files (alive, and at or
\* above the minimum log number when the memtable was flushed) are linked or
\* copied, in ascending order of their log numbers, and once the transfer
\* ended without error every selected WAL file was transferred.
C21_WalSelection ==
  IsCheckpoint =>
    /\ \A k \in WalOps : ops[k].fname \in ClaimedWals
    /\ \A j, k \in WalOps :
         j < k => /\ ops[j].fname[2] <= ops[k].fname[2]
                  /\ ops[j].fname = ops[k].fname =>
                       (ops[j].cb = "link" /\ ops[j].st = NotSupported /\ k = j + 1)
    /\ (pc = "cc_enable" /\ s = OK) =>
         \A w \in ClaimedWals :
           \E k \in WalOps : ops[k].fname = w /\ ops[k].st = OK

\* the memtable was flushed and the older alive WAL file lies below the
\* minimum log number: only the newest one is in the checkpoint
C21_Witness ==
  /\ IsCheckpoint
  /\ pc = "done"
  /\ s = OK
  /\ flush_memtable
  /\ min_log_num = MaxWals
  /\ live_wal_files[1].type = kAliveLogFile
  /\ {ops[k].fname : k \in WalOps} = {LogFileName(MaxWals)}

\* the DisableFileDeletions calls that returned a status of the set sts
DisableCalls(sts) ==
  {k \in DOMAIN engine_calls :
     engine_calls[k].api = "DisableFileDeletions" /\ engine_calls[k].st \in sts}

\* C22: when DisableFileDeletions reports 'not supported', CreateCheckpoint
\* goes on to enumerate and transfer, and 'not supported' is not what it
\* returns; when DisableFileDeletions fails with another error, no engine
\* call and no callback follows it and the call returns that error.
C22_DisableFileDeletionsOutcome ==
  /\ [][(pc = "cc_disable" /\ pc' # pc /\ s' = NotSupported)
          => pc' = "ccc_seq"]_vars
  /\ []((IsCheckpoint /\ DisableCalls({NotSupported}) # {} /\ pc = "done")
          => s # NotSupported)
  /\ [](IsCheckpoint =>
          \A k \in DisableCalls({IOError, InvalidArgument, Corruption}) :
            /\ k = Len(engine_calls)
            /\ ops = <<>>
            /\ live_files = <<>>
            /\ live_wal_files = <<>>
            /\ s = engine_calls[k].st)

\* after DisableFileDeletions reported 'not supported' the call transferred
\* the files and returned OK with the target in place
C22_Witness ==
  /\ IsCheckpoint
  /\ DisableCalls({NotSupported}) # {}
  /\ pc = "done"
  /\ s = OK
  /\ ops # <<>>
  /\ fs[Target].exists
  /\ CompleteSnapshot

\* the step that renames the staging directory to the target name
RenameStep ==
  /\ pc \in {"cc_rename", "ex_rename"}
  /\ pc' \in {"cc_fsync", "ex_fsync"}

\* the transfer steps of the call that failed
FailedTransferSteps == IF IsCheckpoint THEN FatalCheckpointOps ELSE FatalExportOps

\* C23: in CreateCheckpoint and in ExportColumnFamily the staging directory
\* is renamed to the target only after every transfer step succeeded and
\* file deletions were enabled again; the directory is fsynced only after
\* the rename succeeded; no file is linked, copied or created after the
\* rename; the sequence number or the metadata is written only by a call
\* that returns OK after the rename and the fsync, and a failed call leaves
\* it unwritten.
C23_CommitOrdering ==
  /\ [][RenameStep =>
          /\ FailedTransferSteps = {}
          /\ Cardinality(OkCalls("DisableFileDeletions"))
               = Cardinality(OkCalls("EnableFileDeletions"))
          /\ ~fs[Target].exists /\ fs'[Target].exists]_vars
  /\ [](pc \in {"cc_fsync", "ex_fsync"} =>
          (s = OK /\ fs[Target].exists /\ ~fs[Staging].exists))
  /\ [][(Accepted /\ fs[Target].exists) => ops' = ops]_vars
  /\ []((pc \in {"cc_finish", "ex_finish", "done"} /\ s = OK) =>
          (Accepted /\ fs[Target].exists))
  /\ [](sequence_number_ptr # -1 => (IsCheckpoint /\ pc = "done" /\ s = OK))
  /\ [](metadata # <<>> => (IsExport /\ pc = "done" /\ s = OK))

\* caller c made the staging directory that exists and has not yet renamed
\* it or returned
Populating(c) ==
  /\ staged.creator = c
  /\ fs[CoStaging].exists
  /\ callers[c].pc \in {"cc_disable", "ccc_live", "ccc_transfer", "cc_enable",
                        "cc_rename"}

\* the files caller c transfers, each put by c
FileSetOf(c) ==
  {<<callers[c].plan[j].fname, c>> : j \in 1..Len(callers[c].plan)}

\* C24: with two CreateCheckpoint calls running at once for one target, no
\* call deletes or changes the staging directory the other call made and is
\* populating, at most one call returns OK, and once both returned the
\* target, if it exists, holds the complete file set of one call, every
\* file put by that call.
C24_ExclusiveStaging ==
  /\ [][\A c \in DOMAIN callers :
          (callers'[c] # callers[c] /\ fs'[CoStaging] # fs[CoStaging])
            => \A d \in DOMAIN callers \ {c} : ~Populating(d)]_vars
  /\ [](\A c, d \in DOMAIN callers :
          (/\ c # d
           /\ callers[c].pc = "done" /\ callers[c].s = OK
           /\ callers[d].pc = "done") => callers[d].s # OK)
  /\ []((/\ callers # <<>>
         /\ \A c \in DOMAIN callers : callers[c].pc = "done"
         /\ fs[CoTarget].exists)
          => \E c \in DOMAIN callers :
               /\ callers[c].s = OK
               /\ staged.committed = FileSetOf(c))

====
